---- MODULE Spec2Model ----
(***************************************************************************)
(* A model of the view provisioning, retry and query code of               *)
(* src/src/sw360_dashboard/couchdb_utils.py and of the stages of           *)
(* src/src/sw360_dashboard/couchdb_common_metrics.py that call it.         *)
(*                                                                         *)
(* The document store holds one design document (its revision and its      *)
(* views).  Every caller is one exporter process.  A caller's step is one  *)
(* request to the store together with all the local code up to the next    *)
(* request: the requests are the only suspension points.                   *)
(***************************************************************************)
EXTENDS Integers, Sequences, FiniteSets, TLC

\* ------------------------------------------------------------------------
\* Program constants
\* ------------------------------------------------------------------------
MAX_BACKOFF_RETRIES == 100

\* ------------------------------------------------------------------------
\* Bounds of the model
\* ------------------------------------------------------------------------
\* callers racing on create_new_view_in_db (specification SpecRace)
NumCallers == 2
\* errors the environment may inject into a race
MaxFaults == 1
\* successive stages (save_new_view, then fetch_results) of one run
MaxCalls == 2
\* highest revision at which the answer to an accepted put may still be lost
MaxRev == 2

Callers == 1..NumCallers

\* ------------------------------------------------------------------------
\* Strings as the code reads them: sequences of characters
\* ------------------------------------------------------------------------
Str_true == <<"t", "r", "u", "e">>
Str_TRUE == <<"T", "R", "U", "E">>
Str_True == <<"T", "r", "u", "e">>
Str_false == <<"f", "a", "l", "s", "e">>
Str_timeout == <<"t", "i", "m", "e", "o", "u", "t">>

\* str.lower() on the letters the model uses
LowerChar(ch) ==
    CASE ch = "T" -> "t"
      [] ch = "R" -> "r"
      [] ch = "U" -> "u"
      [] ch = "E" -> "e"
      [] ch = "G" -> "g"
      [] OTHER -> ch

Lower(s) == [i \in 1..Len(s) |-> LowerChar(s[i])]

\* Python's `sub in s` on strings
Contains(sub, s) ==
    \E i \in 0..(Len(s) - Len(sub)) :
        \A j \in 1..Len(sub) : s[i + j] = sub[j]

\* ------------------------------------------------------------------------
\* Exceptions the store client raises
\* ------------------------------------------------------------------------
NoErr == "none"

\* ibm_cloud_sdk_core.ApiException, by the error the store answered
ApiErrors == {"conflict409", "not_found404", "timeout408", "timeout500",
              "gateway504", "too_many_requests429",
              "service_unavailable503", "unauthorized401", "bad_request400",
              "not_ok500"}

\* an exception that is not an ApiException (requests.ConnectionError)
OtherErrors == {"connection_error"}

IsApiException(e) == e \in ApiErrors

status_code(e) ==
    CASE e = "conflict409" -> 409
      [] e = "not_found404" -> 404
      [] e = "timeout408" -> 408
      [] e = "timeout500" -> 500
      [] e = "gateway504" -> 504
      [] e = "too_many_requests429" -> 429
      [] e = "service_unavailable503" -> 503
      [] e = "unauthorized401" -> 401
      [] e = "bad_request400" -> 400
      [] e = "not_ok500" -> 500
      [] OTHER -> 0

message(e) ==
    CASE e = "conflict409" -> <<"c", "o", "n", "f", "l", "i", "c", "t">>
      [] e = "not_found404" -> <<"n", "o", "t", "_", "f", "o", "u", "n", "d">>
      [] e = "timeout408" -> Str_timeout
      [] e = "timeout500" -> Str_timeout
      [] e = "gateway504" -> <<"G", "a", "t", "e", "w", "a", "y", " ",
                               "T", "i", "m", "e", "o", "u", "t">>
      [] e = "too_many_requests429" -> <<"t", "o", "o", "_", "m", "a", "n", "y">>
      [] e = "service_unavailable503" -> <<"u", "n", "a", "v", "a", "i", "l">>
      [] e = "unauthorized401" -> <<"u", "n", "a", "u", "t", "h">>
      [] e = "bad_request400" -> <<"b", "a", "d", "_", "r", "e", "q">>
      [] OTHER -> << >>

\* errors the environment injects: the store decides 404 and 409 by its state,
\* and not_ok500 is what create_new_view_in_db raises itself
InjectedApiErrors == ApiErrors \ {"conflict409", "not_found404", "not_ok500"}

\* ------------------------------------------------------------------------
\* The retry classifiers
\* ------------------------------------------------------------------------
giveup_not_timeout_exception(ex) ==
    IF IsApiException(ex) THEN ~Contains(Str_timeout, message(ex)) ELSE TRUE

giveup_not_indexing_or_unavailable(ex) ==
    IF IsApiException(ex) THEN status_code(ex) \notin {404, 408, 503} ELSE TRUE

giveup_not_indexing_exception(ex) ==
    IF IsApiException(ex) THEN status_code(ex) \notin {404, 408} ELSE TRUE

\* create_new_view_in_db is decorated without a giveup predicate
giveup_on_conflict(ex) == status_code(ex) = 409

giveup_never(ex) == FALSE

\* backoff.on_exception: after a caught exception on attempt number n, give up
\* when the classifier says so, when n reached max_tries, or when max_time had
\* elapsed at the start of the attempt; "none": back off and try again
GiveUpReasonOneMore(giveup, n, max_time_exceeded) ==
    IF giveup THEN "classifier"
    ELSE IF n = MAX_BACKOFF_RETRIES + 1 THEN "max_tries"
    ELSE IF max_time_exceeded THEN "max_time"
    ELSE "none"

GiveUpReason(giveup, n, max_time_exceeded) ==
    IF giveup THEN "classifier"
    ELSE IF n = MAX_BACKOFF_RETRIES THEN "max_tries"
    ELSE IF max_time_exceeded THEN "max_time"
    ELSE "none"

on_exception_gives_up(giveup, n, max_time_exceeded) ==
    GiveUpReason(giveup, n, max_time_exceeded) # "none"

\* the elapsed time read at the start of attempt n: the first attempt starts
\* at zero, any later one may start after max_time
MaxTimeChoices(n) == IF n = 1 THEN {FALSE} ELSE BOOLEAN

\* ------------------------------------------------------------------------
\* Views and design documents
\* ------------------------------------------------------------------------
ViewNames == {"v1", "v2", "sib"}

\* the views a caller asks for; "sib" is a sibling view other code created
RequestedViews == {"v1", "v2"}

\* the map_function dictionaries callers pass
MapFunctions == {[map |-> "fA"], [map |-> "fB", reduce |-> "_stats"]}

\* the stages of a run: each provisions its own view with its own map function
Stages == {[view |-> "v1", map_function |-> [map |-> "fA"]],
           [view |-> "v2", map_function |-> [map |-> "fB", reduce |-> "_stats"]]}

\* what racing caller c may ask for: the view of one of the stages, and for
\* every second caller also the first view under the other map function
RaceRequests(c) ==
    IF c % 2 = 1 THEN {[view |-> "v1", map_function |-> [map |-> "fA"]]}
    ELSE {[view |-> "v2", map_function |-> [map |-> "fB", reduce |-> "_stats"]],
          [view |-> "v1", map_function |-> [map |-> "fB", reduce |-> "_stats"]]}

\* dict.get(k, default)
Get(d, k, default) == IF k \in DOMAIN d THEN d[k] ELSE default

\* DesignDocumentViewsMapReduce(map=map_function['map'],
\*                              reduce=map_function.get('reduce', None))
NewView(mf) == [map |-> mf["map"], reduce |-> Get(mf, "reduce", "None")]

\* DesignDocumentViewsMapReduce.from_dict(value)
from_dict(value) == [map |-> value["map"], reduce |-> Get(value, "reduce", "None")]

\* the JSON of a view object in the body of put_design_document
to_dict(obj) ==
    IF obj.reduce = "None" THEN [map |-> obj.map]
    ELSE [map |-> obj.map, reduce |-> obj.reduce]

\* the views of the document that is put when a design document was read:
\* the new view first, then every existing view written over it
MergeViewsReplace(existing_views, v, mf) == [k \in {v} |-> NewView(mf)]

MergeViewsNewWins(existing_views, v, mf) ==
    [k \in {v} \cup DOMAIN existing_views |->
        IF k = v THEN NewView(mf) ELSE from_dict(existing_views[k])]

MergeViews(existing_views, v, mf) ==
    [k \in {v} \cup DOMAIN existing_views |->
        IF k \in DOMAIN existing_views THEN from_dict(existing_views[k])
        ELSE NewView(mf)]

\* the views of the document that is put when none was read
OnlyView(v, mf) == [k \in {v} |-> NewView(mf)]

NoDoc == [some |-> FALSE, rev |-> 0, views |-> << >>]

\* the DesignDocument passed to put_design_document
design_document(existing, v, mf) ==
    IF existing.some
    THEN [rev |-> existing.rev, views |-> MergeViews(existing.views, v, mf)]
    ELSE [rev |-> 0, views |-> OnlyView(v, mf)]

Serialize(views) == [k \in DOMAIN views |-> to_dict(views[k])]

\* ------------------------------------------------------------------------
\* Configuration
\* ------------------------------------------------------------------------
\* os.getenv('DRY_RUN', True): unset, or the string of the variable
Unset == [set |-> FALSE, val |-> << >>]

DryRunEnvs == {Unset,
               [set |-> TRUE, val |-> Str_true],
               [set |-> TRUE, val |-> Str_TRUE],
               [set |-> TRUE, val |-> Str_false]}

\* dry_run is True or dry_run.lower() == "true"
dry_run_exact(env) == IF ~env.set THEN TRUE ELSE env.val = Str_true

dry_run(env) == IF ~env.set THEN TRUE ELSE Lower(env.val) = Str_true

\* ------------------------------------------------------------------------
\* State
\* ------------------------------------------------------------------------
VARIABLES
    docRev,         \* revision of the design document in the store, 0: none
    docViews,       \* its views: view name -> stored dictionary
    docInitial,     \* the design document the run found (never changes)
    faultsLeft,     \* errors the environment may still inject, -1: no limit
    callsAllowed,   \* stages (or direct calls) a caller makes in this run
    injectable,     \* exceptions the environment injects in this run
    DRY_RUN,        \* per caller: the DRY_RUN variable of its environment
    pc,             \* per caller: the request it is about to make
    frame,          \* per caller: who called create_new_view_in_db
    callNo,         \* per caller: stages (or direct calls) completed
    view,           \* per caller: argument view
    map_function,   \* per caller: argument map_function
    design_exists,  \* per caller: local of save_new_view
    view_created,   \* per caller: local of save_new_view
    existing_design_doc, \* per caller: local of create_new_view_in_db
    tries,          \* per caller: attempts the running retry loop has made
    lastErr,        \* per caller: exception the loop caught last
    why,            \* per caller: why the loop gave up
    ret,            \* per caller: what the last decorated function returned
    checkSaw,       \* per caller: what the existence check of this call met
    put_issued,     \* per caller: this call issued put_design_document
    slept,          \* per caller: this call slept the settle interval
    polled,         \* per caller: this call polled the view
    pollOutcome,    \* per caller: how wait_for_view_indexing ended
    prev,           \* per caller: how its last save_new_view call ended
    succeeded       \* per caller: views whose creation returned True

\* the variables of the view provisioning and query model
couchVars == <<docRev, docViews, docInitial, faultsLeft, callsAllowed, injectable, DRY_RUN,
          pc, frame, callNo, view,
          map_function, design_exists, view_created, existing_design_doc,
          tries, lastErr, why, ret, checkSaw, put_issued, slept, polled,
          pollOutcome, prev, succeeded>>

VARIABLES
    aws,            \* the calls of get_running_instances / get_cloudwatch_metric
    mainRun,        \* a run of main(): its stages, then the push to the gateway
    ebs,            \* a run of collect_ebs_volume_metrics and its gauges
    series,         \* a call of format_for_time_series
    org,            \* a call of count_projects_per_release and organize_data
    agg,            \* an aggregation stage over the rows of the document store
    gw,             \* the runs of the exporter against the push gateway
    ec2             \* a call of collect_ec2_instance_metrics

\* the variables of the report, the aggregation stages, the gateway and the
\* instance metrics
lateVars == <<org, agg, gw, ec2>>

\* the variables of the other parts of the program
auxVars == <<aws, mainRun, ebs, series, lateVars>>

vars == <<couchVars, auxVars>>

storeVars == <<docRev, docViews>>

Unlimited == 0 - 1

NoPrev == [some |-> FALSE, view |-> "", ready |-> FALSE, answered |-> FALSE]

\* the design documents a run may find in the store
InitialDocs == {[rev |-> 0, views |-> << >>],
                [rev |-> 1, views |-> [k \in {"sib"} |-> [map |-> "fS"]]],
                [rev |-> 1, views |-> [k \in {"sib", "v1"} |->
                    IF k = "sib" THEN [map |-> "fS", reduce |-> "_count"]
                    ELSE [map |-> "fA"]]]}

InitCallers(active) ==
    /\ pc = [c \in Callers |-> IF c \in active THEN "idle" ELSE "off"]
    /\ frame = [c \in Callers |-> "none"]
    /\ callNo = [c \in Callers |-> 0]
    /\ view = [c \in Callers |-> "v1"]
    /\ map_function = [c \in Callers |-> [map |-> "fA"]]
    /\ design_exists = [c \in Callers |-> FALSE]
    /\ view_created = [c \in Callers |-> FALSE]
    /\ existing_design_doc = [c \in Callers |-> NoDoc]
    /\ tries = [c \in Callers |-> 0]
    /\ lastErr = [c \in Callers |-> NoErr]
    /\ why = [c \in Callers |-> "none"]
    /\ ret = [c \in Callers |-> "none"]
    /\ checkSaw = [c \in Callers |-> "none"]
    /\ put_issued = [c \in Callers |-> FALSE]
    /\ slept = [c \in Callers |-> FALSE]
    /\ polled = [c \in Callers |-> FALSE]
    /\ pollOutcome = [c \in Callers |-> "none"]
    /\ prev = [c \in Callers |-> NoPrev]
    /\ succeeded = [c \in Callers |-> {}]

\* the other parts of the program are not running
AwsOff == aws = [pc |-> "off"]

MainOff == mainRun = [pc |-> "off"]

EbsOff == ebs = [pc |-> "off"]

SeriesOff == series = [pc |-> "off"]

OrgOff == org = [pc |-> "off"]

AggOff == agg = [pc |-> "off"]

GwOff == gw = [pc |-> "off"]

Ec2Off == ec2 = [pc |-> "off"]

LateOff == OrgOff /\ AggOff /\ GwOff /\ Ec2Off

AuxOff == AwsOff /\ MainOff /\ EbsOff /\ SeriesOff /\ LateOff

\* one stage of a run, against a store that may fail any request any number
\* of times
Init ==
    /\ AuxOff
    /\ \E d \in InitialDocs : docRev = d.rev /\ docViews = d.views /\ docInitial = d
    /\ faultsLeft = Unlimited
    /\ callsAllowed = 1
    /\ injectable = InjectedApiErrors \cup OtherErrors
    /\ \E env \in DryRunEnvs : DRY_RUN = [c \in Callers |-> env]
    /\ InitCallers({1})

\* successive stages of a run, against a store that fails a bounded number of
\* requests
InitTwice ==
    /\ AuxOff
    /\ \E d \in InitialDocs : docRev = d.rev /\ docViews = d.views /\ docInitial = d
    /\ faultsLeft = MaxFaults
    /\ callsAllowed = MaxCalls
    /\ injectable = InjectedApiErrors \cup OtherErrors
    /\ \E env \in DryRunEnvs : DRY_RUN = [c \in Callers |-> env]
    /\ InitCallers({1})

\* callers of create_new_view_in_db racing on one design document, one call
\* each; the environment injects one kind of ApiException and one other error
RaceErrors == {"service_unavailable503", "connection_error"}

InitRace ==
    /\ AuxOff
    /\ \E d \in InitialDocs : docRev = d.rev /\ docViews = d.views /\ docInitial = d
    /\ faultsLeft = MaxFaults
    /\ callsAllowed = 1
    /\ injectable = RaceErrors
    /\ DRY_RUN = [c \in Callers |-> [set |-> TRUE, val |-> Str_false]]
    /\ InitCallers(Callers)

\* ------------------------------------------------------------------------
\* The store and the environment
\* ------------------------------------------------------------------------
CanInject == faultsLeft # 0

Injected == faultsLeft' = IF faultsLeft > 0 THEN faultsLeft - 1 ELSE faultsLeft

\* the store accepts a put of a new document, or one that carries the
\* current revision; any other put is a conflict
StoreAccepts(doc) == IF docRev = 0 THEN doc.rev = 0 ELSE doc.rev = docRev

StoreApply(doc) ==
    /\ docRev' = docRev + 1
    /\ docViews' = Serialize(doc.views)

ViewInStore(v) == docRev > 0 /\ v \in DOMAIN docViews

\* ------------------------------------------------------------------------
\* save_new_view
\* ------------------------------------------------------------------------
\* a stage of the run calls save_new_view(client, db, design_doc, view, map)
StartStage(c) ==
    /\ pc[c] = "idle"
    /\ UNCHANGED auxVars
    /\ callNo[c] < callsAllowed
    /\ \E st \in Stages :
         /\ view' = [view EXCEPT ![c] = st.view]
         /\ map_function' = [map_function EXCEPT ![c] = st.map_function]
    /\ frame' = [frame EXCEPT ![c] = "save_new_view"]
    /\ pc' = [pc EXCEPT ![c] = "check"]
    /\ design_exists' = [design_exists EXCEPT ![c] = FALSE]
    /\ view_created' = [view_created EXCEPT ![c] = FALSE]
    /\ existing_design_doc' = [existing_design_doc EXCEPT ![c] = NoDoc]
    /\ tries' = [tries EXCEPT ![c] = 0]
    /\ lastErr' = [lastErr EXCEPT ![c] = NoErr]
    /\ why' = [why EXCEPT ![c] = "none"]
    /\ ret' = [ret EXCEPT ![c] = "none"]
    /\ checkSaw' = [checkSaw EXCEPT ![c] = "none"]
    /\ put_issued' = [put_issued EXCEPT ![c] = FALSE]
    /\ slept' = [slept EXCEPT ![c] = FALSE]
    /\ polled' = [polled EXCEPT ![c] = FALSE]
    /\ pollOutcome' = [pollOutcome EXCEPT ![c] = "none"]
    /\ UNCHANGED <<docRev, docViews, docInitial, faultsLeft, callsAllowed, injectable, DRY_RUN, callNo, prev, succeeded>>

\* where save_new_view goes once the existence check is over (lines 183-198):
\* an existing view ends the call, a missing one is created unless dry_run
AfterCheckAlwaysCreate(c, exists) ==
    IF ~dry_run(DRY_RUN[c])
    THEN /\ pc' = [pc EXCEPT ![c] = "create_read"]
         /\ UNCHANGED view_created
    ELSE /\ pc' = [pc EXCEPT ![c] = "sleep"]
         /\ view_created' = [view_created EXCEPT ![c] = TRUE]

AfterCheckDryRunSkipsWait(c, exists) ==
    IF exists
    THEN /\ pc' = [pc EXCEPT ![c] = "saved"]
         /\ UNCHANGED view_created
    ELSE IF ~dry_run(DRY_RUN[c])
    THEN /\ pc' = [pc EXCEPT ![c] = "create_read"]
         /\ UNCHANGED view_created
    ELSE /\ pc' = [pc EXCEPT ![c] = "saved"]
         /\ UNCHANGED view_created

AfterCheck(c, exists) ==
    IF exists
    THEN /\ pc' = [pc EXCEPT ![c] = "saved"]
         /\ UNCHANGED view_created
    ELSE IF ~dry_run(DRY_RUN[c])
    THEN /\ pc' = [pc EXCEPT ![c] = "create_read"]
         /\ UNCHANGED view_created
    ELSE /\ pc' = [pc EXCEPT ![c] = "sleep"]
         /\ view_created' = [view_created EXCEPT ![c] = TRUE]

\* the answer of get_design_document as save_new_view reads it (lines 174-182):
\* any exception is swallowed and leaves design_exists False
CheckResult(c, exists, saw, e) ==
    /\ design_exists' = [design_exists EXCEPT ![c] = exists]
    /\ checkSaw' = [checkSaw EXCEPT ![c] = saw]
    /\ lastErr' = [lastErr EXCEPT ![c] = e]
    /\ AfterCheck(c, exists)

SaveCheck(c) ==
    /\ pc[c] = "check"
    /\ UNCHANGED auxVars
    /\ \/ /\ docRev > 0
          /\ CheckResult(c, view[c] \in DOMAIN docViews,
                         IF view[c] \in DOMAIN docViews THEN "exists" ELSE "missing",
                         NoErr)
          /\ UNCHANGED faultsLeft
       \/ /\ docRev = 0
          /\ CheckResult(c, FALSE, "no_document", "not_found404")
          /\ UNCHANGED faultsLeft
       \/ /\ CanInject
          /\ \E e \in injectable :
                CheckResult(c, FALSE, "error", e)
          /\ Injected
    /\ UNCHANGED <<docRev, docViews, docInitial, callsAllowed, injectable, DRY_RUN, frame, callNo, view, map_function,
                   existing_design_doc, tries, why, ret, put_issued, slept,
                   polled, pollOutcome, prev, succeeded>>

\* time.sleep(5) before the view is polled (lines 195-198)
Settle(c) ==
    /\ pc[c] = "sleep"
    /\ UNCHANGED auxVars
    /\ slept' = [slept EXCEPT ![c] = TRUE]
    /\ pc' = [pc EXCEPT ![c] = "poll"]
    /\ tries' = [tries EXCEPT ![c] = 0]
    /\ lastErr' = [lastErr EXCEPT ![c] = NoErr]
    /\ why' = [why EXCEPT ![c] = "none"]
    /\ UNCHANGED <<docRev, docViews, docInitial, faultsLeft, callsAllowed, injectable, DRY_RUN, frame, callNo, view,
                   map_function, design_exists, view_created,
                   existing_design_doc, ret, checkSaw, put_issued, polled,
                   pollOutcome,  prev, succeeded>>

\* ------------------------------------------------------------------------
\* create_new_view_in_db
\* ------------------------------------------------------------------------
\* a caller calls create_new_view_in_db itself
StartCreate(c) ==
    /\ pc[c] = "idle"
    /\ UNCHANGED auxVars
    /\ callNo[c] < callsAllowed
    /\ \E rq \in RaceRequests(c) :
         /\ view' = [view EXCEPT ![c] = rq.view]
         /\ map_function' = [map_function EXCEPT ![c] = rq.map_function]
    /\ frame' = [frame EXCEPT ![c] = "direct"]
    /\ pc' = [pc EXCEPT ![c] = "create_read"]
    /\ existing_design_doc' = [existing_design_doc EXCEPT ![c] = NoDoc]
    /\ tries' = [tries EXCEPT ![c] = 0]
    /\ lastErr' = [lastErr EXCEPT ![c] = NoErr]
    /\ why' = [why EXCEPT ![c] = "none"]
    /\ ret' = [ret EXCEPT ![c] = "none"]
    /\ put_issued' = [put_issued EXCEPT ![c] = FALSE]
    /\ UNCHANGED <<docRev, docViews, docInitial, faultsLeft, callsAllowed, injectable, DRY_RUN, callNo, design_exists,
                   view_created, checkSaw, slept, polled, pollOutcome, 
                   prev, succeeded>>

\* an attempt begins: get_design_document(latest=True), an ApiException read
\* as "no design document" (lines 140-144)
CreateRead(c) ==
    /\ pc[c] = "create_read"
    /\ UNCHANGED auxVars
    /\ tries' = [tries EXCEPT ![c] = tries[c] + 1]
    /\ \/ /\ docRev > 0
          /\ existing_design_doc' = [existing_design_doc EXCEPT ![c] =
                [some |-> TRUE, rev |-> docRev, views |-> docViews]]
          /\ pc' = [pc EXCEPT ![c] = "create_put"]
          /\ UNCHANGED <<faultsLeft, lastErr>>
       \/ /\ docRev = 0
          /\ existing_design_doc' = [existing_design_doc EXCEPT ![c] = NoDoc]
          /\ pc' = [pc EXCEPT ![c] = "create_put"]
          /\ UNCHANGED <<faultsLeft, lastErr>>
       \/ /\ CanInject
          /\ injectable \cap ApiErrors # {}
          /\ existing_design_doc' = [existing_design_doc EXCEPT ![c] = NoDoc]
          /\ pc' = [pc EXCEPT ![c] = "create_put"]
          /\ Injected
          /\ UNCHANGED lastErr
       \/ /\ CanInject
          /\ \E e \in injectable \cap OtherErrors : lastErr' = [lastErr EXCEPT ![c] = e]
          /\ pc' = [pc EXCEPT ![c] = "raised"]
          /\ Injected
          /\ UNCHANGED existing_design_doc
    /\ UNCHANGED <<docRev, docViews, docInitial, callsAllowed, injectable, DRY_RUN, frame, callNo, view, map_function,
                   design_exists, view_created, why, ret, checkSaw, put_issued,
                   slept, polled, pollOutcome, prev, succeeded>>

\* create_new_view_in_db returns r to its caller; save_new_view sets
\* view_created from it (lines 188-191)
ReturnFromCreate(c, r) ==
    /\ ret' = [ret EXCEPT ![c] = r]
    /\ IF frame[c] = "save_new_view"
       THEN /\ view_created' = [view_created EXCEPT ![c] = (r # "None")]
            /\ pc' = [pc EXCEPT ![c] = IF r # "None" THEN "sleep" ELSE "saved"]
       ELSE /\ pc' = [pc EXCEPT ![c] = "returned"]
            /\ UNCHANGED view_created

\* the decorator of create_new_view_in_db after attempt tries[c] raised e
\* (lines 133-136): no giveup predicate, raise_on_giveup=False
CreateFails(c, e) ==
    /\ lastErr' = [lastErr EXCEPT ![c] = e]
    /\ \E over \in MaxTimeChoices(tries[c]) :
         IF on_exception_gives_up(giveup_never(e), tries[c], over)
         THEN /\ why' = [why EXCEPT ![c] =
                    GiveUpReason(giveup_never(e), tries[c], over)]
              /\ ReturnFromCreate(c, "None")
         ELSE /\ pc' = [pc EXCEPT ![c] = "create_read"]
              /\ UNCHANGED <<why, ret, view_created>>

\* the rest of the attempt: build the document, put_design_document
\* (lines 145-167)
CreatePut(c) ==
    /\ pc[c] = "create_put"
    /\ UNCHANGED auxVars
    /\ put_issued' = [put_issued EXCEPT ![c] = TRUE]
    /\ LET doc == design_document(existing_design_doc[c], view[c], map_function[c])
       IN \/ /\ StoreAccepts(doc)
             /\ StoreApply(doc)
             /\ ReturnFromCreate(c, "True")
             /\ succeeded' = [succeeded EXCEPT ![c] = @ \cup {view[c]}]
             /\ UNCHANGED <<faultsLeft, lastErr, why>>
          \/ /\ ~StoreAccepts(doc)
             /\ CreateFails(c, "conflict409")
             /\ UNCHANGED <<docRev, docViews, faultsLeft, succeeded>>
          \/ \* the store wrote the document and the answer was lost
             /\ StoreAccepts(doc)
             /\ docRev < MaxRev
             /\ StoreApply(doc)
             /\ CanInject
             /\ \E e \in injectable \cap ApiErrors : CreateFails(c, e)
             /\ Injected
             /\ UNCHANGED succeeded
          \/ \* the request failed, or its answer was not ok
             /\ CanInject
             /\ \E e \in (injectable \cap ApiErrors) \cup {"not_ok500"} : CreateFails(c, e)
             /\ Injected
             /\ UNCHANGED <<docRev, docViews, succeeded>>
          \/ /\ CanInject
             /\ \E e \in injectable \cap OtherErrors : lastErr' = [lastErr EXCEPT ![c] = e]
             /\ pc' = [pc EXCEPT ![c] = "raised"]
             /\ Injected
             /\ UNCHANGED <<docRev, docViews, succeeded, why, ret, view_created>>
    /\ existing_design_doc' = [existing_design_doc EXCEPT ![c] = NoDoc]
    /\ UNCHANGED <<docInitial, callsAllowed, injectable, DRY_RUN, frame, callNo, view, map_function, design_exists,
                   tries, checkSaw, slept, polled, pollOutcome, prev>>

\* the direct caller goes on
FinishCreate(c) ==
    /\ pc[c] = "returned"
    /\ UNCHANGED auxVars
    /\ pc' = [pc EXCEPT ![c] = "idle"]
    /\ callNo' = [callNo EXCEPT ![c] = callNo[c] + 1]
    /\ UNCHANGED <<docRev, docViews, docInitial, faultsLeft, callsAllowed, injectable, DRY_RUN, frame, view,
                   map_function, design_exists, view_created,
                   existing_design_doc, tries, lastErr, why, ret, checkSaw,
                   put_issued, slept, polled, pollOutcome,  prev,
                   succeeded>>

\* ------------------------------------------------------------------------
\* wait_for_view_indexing
\* ------------------------------------------------------------------------
\* the decorator of wait_for_view_indexing after attempt n raised e
\* (lines 201-207): giveup=giveup_not_indexing_exception
PollFails(c, e, n) ==
    /\ lastErr' = [lastErr EXCEPT ![c] = e]
    /\ \E over \in MaxTimeChoices(n) :
         IF on_exception_gives_up(giveup_not_indexing_exception(e), n, over)
         THEN /\ why' = [why EXCEPT ![c] =
                    GiveUpReason(giveup_not_indexing_exception(e), n, over)]
              /\ pollOutcome' = [pollOutcome EXCEPT ![c] = "gaveup"]
              /\ pc' = [pc EXCEPT ![c] = "saved"]
         ELSE /\ pc' = [pc EXCEPT ![c] = "poll"]
              /\ UNCHANGED <<why, pollOutcome>>

\* one attempt of post_view(limit=1) (lines 208-210); when the poll returns,
\* save_new_view returns
PollView(c) ==
    /\ pc[c] = "poll"
    /\ UNCHANGED auxVars
    /\ polled' = [polled EXCEPT ![c] = TRUE]
    /\ tries' = [tries EXCEPT ![c] = tries[c] + 1]
    /\ \/ /\ ViewInStore(view[c])
          /\ pollOutcome' = [pollOutcome EXCEPT ![c] = "ok"]
          /\ pc' = [pc EXCEPT ![c] = "saved"]
          /\ UNCHANGED <<faultsLeft, lastErr, why>>
       \/ /\ ~ViewInStore(view[c])
          /\ PollFails(c, "not_found404", tries[c] + 1)
          /\ UNCHANGED faultsLeft
       \/ /\ CanInject
          /\ \E e \in injectable \cap ApiErrors : PollFails(c, e, tries[c] + 1)
          /\ Injected
       \/ /\ CanInject
          /\ \E e \in injectable \cap OtherErrors : lastErr' = [lastErr EXCEPT ![c] = e]
          /\ pc' = [pc EXCEPT ![c] = "raised"]
          /\ Injected
          /\ UNCHANGED <<why, pollOutcome>>
    /\ UNCHANGED <<docRev, docViews, docInitial, callsAllowed, injectable, DRY_RUN, frame, callNo, view, map_function,
                   design_exists, view_created, existing_design_doc, ret,
                   checkSaw, put_issued, slept, prev, succeeded>>

\* ------------------------------------------------------------------------
\* fetch_results and the stage around it
\* ------------------------------------------------------------------------
\* save_new_view has returned (it returns nothing) and the stage calls
\* fetch_results on the view
CallFetch(c) ==
    /\ pc[c] = "saved"
    /\ UNCHANGED auxVars
    /\ pc' = [pc EXCEPT ![c] = "fetch"]
    /\ prev' = [prev EXCEPT ![c] =
            [some |-> TRUE, view |-> view[c],
             ready |-> design_exists[c] \/ view_created[c],
             answered |-> design_exists[c] \/ pollOutcome[c] = "ok"]]
    /\ design_exists' = [design_exists EXCEPT ![c] = FALSE]
    /\ view_created' = [view_created EXCEPT ![c] = FALSE]
    /\ checkSaw' = [checkSaw EXCEPT ![c] = "none"]
    /\ put_issued' = [put_issued EXCEPT ![c] = FALSE]
    /\ slept' = [slept EXCEPT ![c] = FALSE]
    /\ polled' = [polled EXCEPT ![c] = FALSE]
    /\ pollOutcome' = [pollOutcome EXCEPT ![c] = "none"]
    /\ tries' = [tries EXCEPT ![c] = 0]
    /\ lastErr' = [lastErr EXCEPT ![c] = NoErr]
    /\ why' = [why EXCEPT ![c] = "none"]
    /\ ret' = [ret EXCEPT ![c] = "none"]
    /\ UNCHANGED <<docRev, docViews, docInitial, faultsLeft, callsAllowed, injectable, DRY_RUN, frame, callNo, view,
                   map_function, existing_design_doc, succeeded>>

\* the decorator of fetch_results after attempt n raised e (lines 108-114):
\* giveup=giveup_not_timeout_exception, raise_on_giveup=False
FetchFails(c, e, n) ==
    /\ lastErr' = [lastErr EXCEPT ![c] = e]
    /\ \E over \in MaxTimeChoices(n) :
         IF on_exception_gives_up(giveup_not_timeout_exception(e), n, over)
         THEN /\ why' = [why EXCEPT ![c] =
                    GiveUpReason(giveup_not_timeout_exception(e), n, over)]
              /\ ret' = [ret EXCEPT ![c] = "None"]
              /\ pc' = [pc EXCEPT ![c] = "fetched"]
         ELSE /\ pc' = [pc EXCEPT ![c] = "fetch"]
              /\ UNCHANGED <<why, ret>>

\* one attempt of post_view(timeout=1000) (lines 115-130); "rows" is the list
\* of rows of the answer
FetchResults(c) ==
    /\ pc[c] = "fetch"
    /\ UNCHANGED auxVars
    /\ tries' = [tries EXCEPT ![c] = tries[c] + 1]
    /\ \/ /\ ViewInStore(view[c])
          /\ ret' = [ret EXCEPT ![c] = "rows"]
          /\ pc' = [pc EXCEPT ![c] = "fetched"]
          /\ UNCHANGED <<faultsLeft, lastErr, why>>
       \/ /\ ~ViewInStore(view[c])
          /\ FetchFails(c, "not_found404", tries[c] + 1)
          /\ UNCHANGED faultsLeft
       \/ /\ CanInject
          /\ \E e \in injectable \cap ApiErrors : FetchFails(c, e, tries[c] + 1)
          /\ Injected
       \/ /\ CanInject
          /\ \E e \in injectable \cap OtherErrors : lastErr' = [lastErr EXCEPT ![c] = e]
          /\ pc' = [pc EXCEPT ![c] = "raised"]
          /\ Injected
          /\ UNCHANGED <<why, ret>>
    /\ UNCHANGED <<docRev, docViews, docInitial, callsAllowed, injectable, DRY_RUN, frame, callNo, view, map_function,
                   design_exists, view_created, existing_design_doc, checkSaw,
                   put_issued, slept, polled, pollOutcome,  prev,
                   succeeded>>

\* the stage is over and the run goes on to its next stage
EndStage(c) ==
    /\ pc[c] = "fetched"
    /\ UNCHANGED auxVars
    /\ pc' = [pc EXCEPT ![c] = "idle"]
    /\ callNo' = [callNo EXCEPT ![c] = callNo[c] + 1]
    /\ tries' = [tries EXCEPT ![c] = 0]
    /\ lastErr' = [lastErr EXCEPT ![c] = NoErr]
    /\ why' = [why EXCEPT ![c] = "none"]
    /\ ret' = [ret EXCEPT ![c] = "none"]
    /\ UNCHANGED <<docRev, docViews, docInitial, faultsLeft, callsAllowed, injectable, DRY_RUN, frame, view,
                   map_function, design_exists, view_created,
                   existing_design_doc, checkSaw, put_issued, slept, polled,
                   pollOutcome, prev, succeeded>>

\* ------------------------------------------------------------------------
\* Specifications
\* ------------------------------------------------------------------------
Next ==
    \E c \in Callers :
        \/ StartStage(c)
        \/ SaveCheck(c)
        \/ CreateRead(c)
        \/ CreatePut(c)
        \/ Settle(c)
        \/ PollView(c)
        \/ CallFetch(c)
        \/ FetchResults(c)
        \/ EndStage(c)

Spec == Init /\ [][Next]_vars

SpecTwice == InitTwice /\ [][Next]_vars

NextRace ==
    \E c \in Callers :
        \/ StartCreate(c)
        \/ CreateRead(c)
        \/ CreatePut(c)
        \/ FinishCreate(c)

SpecRace == InitRace /\ [][NextRace]_vars

\* ------------------------------------------------------------------------
\* aws_cloudwatch_utils.py: the retried calls of the cloud API
\* ------------------------------------------------------------------------
AWS_MAX_BACKOFF_RETRIES == 5

\* calls of one run that the model follows
MaxAwsCalls == 3

\* the view provisioning model is not running
CouchOff ==
    /\ docRev = 0 /\ docViews = << >>
    /\ docInitial = [rev |-> 0, views |-> << >>]
    /\ faultsLeft = 0
    /\ callsAllowed = 0
    /\ injectable = {}
    /\ DRY_RUN = [c \in Callers |-> Unset]
    /\ InitCallers({})

\* the error codes of a botocore ClientError, and an exception of another
\* class
ThrottleCodes == {"Throttling", "RequestLimitExceeded", "ServiceUnavailable"}

ClientErrorCodes == ThrottleCodes \cup {"AccessDenied", "InvalidParameterValue"}

AwsOtherErrors == {"EndpointConnectionError"}

IsClientError(ex) == ex \in ClientErrorCodes

giveup_not_throttle_exception(ex) ==
    IF IsClientError(ex) THEN ex \notin ThrottleCodes ELSE TRUE

\* backoff.on_exception with max_tries=MAX_BACKOFF_RETRIES of this file
AwsGiveUpReason(giveup, n, max_time_exceeded) ==
    IF giveup THEN "classifier"
    ELSE IF n = AWS_MAX_BACKOFF_RETRIES THEN "max_tries"
    ELSE IF max_time_exceeded THEN "max_time"
    ELSE "none"

AwsFunctions == {"get_running_instances", "get_cloudwatch_metric"}

\* what the body returns when the API answers: the list of instances, the
\* latest datapoint, or None when there is no datapoint
AwsAnswers(fn) ==
    IF fn = "get_running_instances" THEN {"instances"} ELSE {"datapoint", "None"}

\* what the body returns from its own `except Exception`
AwsDefault(fn) == IF fn = "get_running_instances" THEN "[]" ELSE "None"

\* `except Exception` in the body catches every exception the API call raises
caught_in_body(ex) == ex \in ClientErrorCodes \cup AwsOtherErrors

AwsIdle == [pc |-> "idle", fn |-> "none", tries |-> 0, err |-> NoErr,
            why |-> "none", ret |-> "none", log |-> << >>]

InitAws ==
    /\ CouchOff /\ MainOff /\ EbsOff /\ SeriesOff /\ LateOff
    /\ aws = AwsIdle

\* the run calls get_running_instances or get_cloudwatch_metric
AwsCall ==
    /\ aws.pc = "idle"
    /\ Len(aws.log) < MaxAwsCalls
    /\ \E fn \in AwsFunctions :
         aws' = [aws EXCEPT !.pc = "attempt", !.fn = fn, !.tries = 0,
                            !.err = NoErr, !.why = "none", !.ret = "none"]
    /\ UNCHANGED <<couchVars, lateVars, mainRun, ebs, series>>

\* one attempt: the body with its try/except, then the decorator
AwsAttempt ==
    /\ aws.pc = "attempt"
    /\ LET n == aws.tries + 1
       IN \/ \E r \in AwsAnswers(aws.fn) :
                aws' = [aws EXCEPT !.tries = n, !.ret = r, !.pc = "returned"]
          \/ \E e \in ClientErrorCodes \cup AwsOtherErrors :
                IF caught_in_body(e)
                THEN aws' = [aws EXCEPT !.tries = n, !.err = e,
                                        !.ret = AwsDefault(aws.fn),
                                        !.pc = "returned"]
                ELSE IF ~IsClientError(e)
                THEN aws' = [aws EXCEPT !.tries = n, !.err = e, !.pc = "raised"]
                ELSE \E over \in MaxTimeChoices(n) :
                       LET reason == AwsGiveUpReason(
                               giveup_not_throttle_exception(e), n, over)
                       IN IF reason # "none"
                          THEN aws' = [aws EXCEPT !.tries = n, !.err = e,
                                                  !.why = reason, !.ret = "None",
                                                  !.pc = "returned"]
                          ELSE aws' = [aws EXCEPT !.tries = n, !.err = e]
    /\ UNCHANGED <<couchVars, lateVars, mainRun, ebs, series>>

\* the call is over and the run goes on
AwsReturn ==
    /\ aws.pc = "returned"
    /\ aws' = [aws EXCEPT !.pc = "idle",
                          !.log = Append(@, [fn |-> aws.fn, tries |-> aws.tries,
                                             err |-> aws.err, ret |-> aws.ret])]
    /\ UNCHANGED <<couchVars, lateVars, mainRun, ebs, series>>

NextAws == AwsCall \/ AwsAttempt \/ AwsReturn

SpecAws == InitAws /\ [][NextAws]_vars

\* ------------------------------------------------------------------------
\* couchdb_common_metrics.py: main(), its stages and the push to the gateway
\* ------------------------------------------------------------------------
MAX_PUSH_GATEWAY_RETRIES == 5

\* the stages of main() in order (lines 402-416): how many views the stage
\* fetches with fetch_results, and what its code does with a result None:
\* "skips" (`if not result`, `is None`) or "TypeError" (list(None), iteration)
MainStages == <<
    [name |-> "query_execution_count_all", fetches |-> 0, onNone |-> "skips"],
    [name |-> "query_execution_attachment_usage_all", fetches |-> 1, onNone |-> "skips"],
    [name |-> "query_execution_component_by_type", fetches |-> 1, onNone |-> "TypeError"],
    [name |-> "query_comp_proj_rel_time_series_execution", fetches |-> 3, onNone |-> "skips"],
    [name |-> "query_execution_releases_ecc_cleared_status", fetches |-> 1, onNone |-> "TypeError"],
    [name |-> "query_execution_most_used_comp", fetches |-> 1, onNone |-> "TypeError"],
    [name |-> "query_execution_most_used_cleared_comp", fetches |-> 1, onNone |-> "TypeError"],
    [name |-> "query_execution_most_used_licenses", fetches |-> 1, onNone |-> "TypeError"],
    [name |-> "query_execution_comp_not_used", fetches |-> 2, onNone |-> "skips"] >>

\* what fetch_results returns: the rows of the view, or None after a give-up
FetchReturns == {"rows", "None"}

\* the exceptions of the push: the one push_metrics retries, and another
PushRetried == "ChunkedEncodingError"

PushErrors == {PushRetried, "ConnectionError"}

\* the decorator of push_metrics gives up at max_tries; it has no max_time,
\* no giveup predicate, and raise_on_giveup is left at its default (True)
PushGivesUp(n) == n = MAX_PUSH_GATEWAY_RETRIES

\* on_backoff of couchdb_utils.py (lines 72-78): backoff hands the caught
\* exception over in details['exception'], and the printer reads its
\* status_code and message, which only an ApiException has
backoff_printer(e) == IF IsApiException(e) THEN "printed" ELSE "AttributeError"

\* on_backoff of aws_cloudwatch_utils.py (lines 82-87): prints the exception
aws_backoff_printer(e) == "printed"

MainStart == [pc |-> "stage", stage |-> 1, results |-> << >>, cause |-> "none",
              pushTries |-> 0, pushErr |-> NoErr]

\* the exporter of aws_cloudwatch_utils.py is about to push its registry
AwsPushStart == [pc |-> "aws_push", stage |-> 0, results |-> << >>,
                 cause |-> "none", pushTries |-> 0, pushErr |-> NoErr]

\* a run of main(), or a call of push_metrics of aws_cloudwatch_utils.py
InitMain ==
    /\ CouchOff /\ AwsOff /\ EbsOff /\ SeriesOff /\ LateOff
    /\ mainRun \in {MainStart, AwsPushStart}

\* where main() goes after stage i returned
AfterStage(i) == IF i = Len(MainStages) THEN "delete" ELSE "stage"

\* one stage of main(): it provisions its views, fetches them, and works on
\* the results; an exception of the stage propagates out of main()
RunStage ==
    /\ mainRun.pc = "stage"
    /\ LET i == mainRun.stage
           st == MainStages[i]
       IN \E rs \in [1..st.fetches -> FetchReturns] :
            IF (\E k \in 1..st.fetches : rs[k] = "None") /\ st.onNone = "TypeError"
            THEN mainRun' = [mainRun EXCEPT !.pc = "aborted", !.cause = "TypeError",
                                            !.results = Append(@, rs)]
            ELSE mainRun' = [mainRun EXCEPT !.pc = AfterStage(i),
                                            !.stage = i + 1,
                                            !.results = Append(@, rs)]
    /\ UNCHANGED <<couchVars, lateVars, aws, ebs, series>>

\* delete_from_gateway (lines 418-419); its exceptions propagate
DeleteFromGateway ==
    /\ mainRun.pc = "delete"
    /\ \/ mainRun' = [mainRun EXCEPT !.pc = "push"]
       \/ mainRun' = [mainRun EXCEPT !.pc = "aborted", !.cause = "ConnectionError"]
    /\ UNCHANGED <<couchVars, lateVars, aws, ebs, series>>

\* one attempt of push_metrics (couchdb_utils.py 248-253), then its
\* decorator: before it waits for a further attempt it calls on_backoff,
\* and an exception of on_backoff leaves push_metrics
PushAttempt ==
    /\ mainRun.pc = "push"
    /\ LET n == mainRun.pushTries + 1
       IN \/ mainRun' = [mainRun EXCEPT !.pushTries = n, !.pc = "ended"]
          \/ \E e \in PushErrors :
               IF e = PushRetried /\ ~PushGivesUp(n)
               THEN IF backoff_printer(e) = "printed"
                    THEN mainRun' = [mainRun EXCEPT !.pushTries = n, !.pushErr = e]
                    ELSE mainRun' = [mainRun EXCEPT !.pushTries = n, !.pushErr = e,
                                                    !.pc = "aborted",
                                                    !.cause = backoff_printer(e)]
               ELSE mainRun' = [mainRun EXCEPT !.pushTries = n, !.pushErr = e,
                                               !.pc = "aborted", !.cause = e]
    /\ UNCHANGED <<couchVars, lateVars, aws, ebs, series>>

\* one attempt of push_metrics of aws_cloudwatch_utils.py (lines 202-208),
\* then its decorator
AwsPushAttempt ==
    /\ mainRun.pc = "aws_push"
    /\ LET n == mainRun.pushTries + 1
       IN \/ mainRun' = [mainRun EXCEPT !.pushTries = n, !.pc = "ended"]
          \/ \E e \in PushErrors :
               IF e = PushRetried /\ ~PushGivesUp(n)
               THEN IF aws_backoff_printer(e) = "printed"
                    THEN mainRun' = [mainRun EXCEPT !.pushTries = n, !.pushErr = e]
                    ELSE mainRun' = [mainRun EXCEPT !.pushTries = n, !.pushErr = e,
                                                    !.pc = "aborted",
                                                    !.cause = aws_backoff_printer(e)]
               ELSE mainRun' = [mainRun EXCEPT !.pushTries = n, !.pushErr = e,
                                               !.pc = "aborted", !.cause = e]
    /\ UNCHANGED <<couchVars, lateVars, aws, ebs, series>>

NextMain == RunStage \/ DeleteFromGateway \/ PushAttempt \/ AwsPushAttempt

SpecMain == InitMain /\ [][NextMain]_vars

\* ------------------------------------------------------------------------
\* aws_cloudwatch_utils.py: disk samples, volumes and the EBS gauges
\* ------------------------------------------------------------------------
\* volumes attached to one instance
MaxVolumes == 2

\* Byte counts are given in MiB and sizes in GB in quarters of a GB, so that
\* the sizes the agent reports need not be whole GB
MiBPerGB == 1024

QuartersPerGB == 4

\* get_size_gb: size_bytes / (1024 * 1024 * 1024), in quarters of a GB
get_size_gb(size_mib) == (size_mib * QuartersPerGB) \div MiBPerGB

\* a whole number of GB (the Size of a volume) in quarters of a GB
GB(n) == n * QuartersPerGB

\* A percentage is a float in the code; it is kept here as the fraction it
\* is the nearest float of, in lowest terms
RECURSIVE Gcd(_, _)
Gcd(a, b) == IF b = 0 THEN a ELSE Gcd(b, a % b)

Fraction(a, b) == [num |-> a \div Gcd(a, b), den |-> b \div Gcd(a, b)]

\* the float of a whole number
Float(n) == Fraction(n, 1)

InstanceIds == {"i1", "i2"}

\* the lists of instances a run goes through; an id may come more than once
InstanceLists == {<<"i1">>, <<"i1", "i2">>, <<"i1", "i1">>}

VolumeSizes == {100, 120}

\* the answer of describe_volumes for instance iid: its attached volumes;
\* the k-th volume of an instance has the VolumeId <<iid, k>>
VolumeAnswers(iid) ==
    UNION {{[k \in 1..n |-> [VolumeId |-> <<iid, k>>, Size |-> sz[k],
                             VolumeType |-> "gp3", State |-> "in-use"]]
            : sz \in [1..n -> VolumeSizes]} : n \in 0..MaxVolumes}

NoVolumeId == <<"None", 0>>

\* None as a volume
NoVolume == [VolumeId |-> NoVolumeId, Size |-> 0, VolumeType |-> "None",
             State |-> "None"]

Devices == {"d1", "d2"}

\* what the agent reports for a device: the maxima of disk_total and
\* disk_used in MiB, -1 where CloudWatch holds no value (lines 591-599):
\* 15 GB, 99.75 GB, 105 GB and 500 GB disks
SamplesOf(d) ==
    IF d = "d1"
    THEN {[total |-> 0 - 1, used |-> 0 - 1],
          [total |-> 15360, used |-> 5120],
          [total |-> 102144, used |-> 5120],
          [total |-> 107520, used |-> 0 - 1],
          [total |-> 512000, used |-> 5120]}
    ELSE {[total |-> 107520, used |-> 53760],
          [total |-> 512000, used |-> 5120]}

\* the devices CloudWatch lists for an instance, with their samples
SampleAnswers ==
    UNION {[ds -> UNION {SamplesOf(d) : d \in Devices}] : ds \in SUBSET Devices}

WellFormedSamples(samples) == \A d \in DOMAIN samples : samples[d] \in SamplesOf(d)

OpsMetrics == {"VolumeQueueLength", "VolumeReadOps", "VolumeWriteOps"}

\* the EBS metrics for which CloudWatch has a datapoint
OpsAnswers == {{}, OpsMetrics}

\* find_closest_volume (lines 547-560): the loop over volumes_response
\* ['Volumes'] from position i on
NoClosest == [vol |-> NoVolume, diff |-> 0 - 1]

RECURSIVE nearest_loop(_, _, _, _)
nearest_loop(volume_size, Volumes, i, closest) ==
    IF i > Len(Volumes) THEN closest
    ELSE LET vol == Volumes[i]
             d == GB(vol.Size) - volume_size
             diff == IF d < 0 THEN 0 - d ELSE d
         IN IF closest.diff < 0 \/ diff < closest.diff
            THEN nearest_loop(volume_size, Volumes, i + 1, [vol |-> vol, diff |-> diff])
            ELSE nearest_loop(volume_size, Volumes, i + 1, closest)

find_nearest_volume(volume_size, volumes_response) ==
    nearest_loop(volume_size, volumes_response.Volumes, 1, NoClosest).vol

RECURSIVE closest_loop(_, _, _, _)
closest_loop(volume_size, Volumes, i, closest) ==
    IF i > Len(Volumes) THEN closest
    ELSE LET vol == Volumes[i]
             diff == GB(vol.Size) - volume_size
         IN IF 0 <= diff /\ (closest.diff < 0 \/ diff < closest.diff)
            THEN closest_loop(volume_size, Volumes, i + 1, [vol |-> vol, diff |-> diff])
            ELSE closest_loop(volume_size, Volumes, i + 1, closest)

find_closest_volume(volume_size, volumes_response) ==
    closest_loop(volume_size, volumes_response.Volumes, 1, NoClosest).vol

\* the entry of disk_details for a device (lines 601-623)
DiskDetail(device, sample, vol) ==
    LET total_size_gb == get_size_gb(sample.total)
        used_size_gb == IF sample.used > 0 THEN get_size_gb(sample.used) ELSE 0
        free_size_gb == IF sample.used > 0
                        THEN get_size_gb(sample.total - sample.used)
                        ELSE total_size_gb
    IN [total_gb |-> total_size_gb,
        used_gb |-> used_size_gb,
        free_gb |-> free_size_gb,
        utilization_percent |-> IF total_size_gb > 0
                                THEN Fraction(used_size_gb * 100, total_size_gb)
                                ELSE Float(0),
        device |-> device,
        volume_id |-> vol.VolumeId,
        volume_size |-> vol.Size,
        volume_type |-> vol.VolumeType]

\* get_enhanced_disk_metrics (lines 563-625): no device listed gives {};
\* a device is kept when its total is positive and a volume matches it
get_enhanced_disk_metrics(samples, volumes_response) ==
    IF DOMAIN samples = {} THEN << >>
    ELSE LET matched == {d \in DOMAIN samples :
                            /\ samples[d].total > 0
                            /\ find_closest_volume(get_size_gb(samples[d].total),
                                   volumes_response) # NoVolume}
         IN [d \in matched |->
                DiskDetail(d, samples[d],
                    find_closest_volume(get_size_gb(samples[d].total),
                                        volumes_response))]

\* get_ebs_volumes_for_instance (lines 169-199): the in-use volumes, or []
\* when describe_volumes raised
InUse(vol) == vol.State = "in-use"

get_ebs_volumes_for_instance(Volumes, raised) ==
    IF raised THEN << >> ELSE SelectSeq(Volumes, InUse)

\* a gauge child: the labels (volume_id, instance_id) name it
Label(volume_id, instance_id) == <<volume_id, instance_id>>

SetGauge(gauges, label, sample) ==
    [l \in DOMAIN gauges \cup {label} |-> IF l = label THEN sample ELSE gauges[l]]

\* the estimation of the fallback (lines 343-346), in quarters of a GB
estimated_used_third(volume_size) == GB(volume_size) \div 3

estimated_used_gb(volume_size) == GB(volume_size) \div 2

estimated_free_gb(volume_size) == GB(volume_size) - estimated_used_gb(volume_size)

estimated_utilization == 50

\* the loop of the fallback over the volumes (lines 326-367); `estimated`
\* records which branch set the gauges
RECURSIVE fallback_loop(_, _, _, _)
fallback_loop(volumes, k, instance_id, st) ==
    IF k > Len(volumes) THEN st
    ELSE LET volume == volumes[k]
         IN IF volume.VolumeId \in st.processed_volumes
            THEN fallback_loop(volumes, k + 1, instance_id, st)
            ELSE fallback_loop(volumes, k + 1, instance_id,
                    [processed_volumes |-> st.processed_volumes \cup {volume.VolumeId},
                     gauges |-> SetGauge(st.gauges,
                                    Label(volume.VolumeId, instance_id),
                                    [size |-> GB(volume.Size),
                                     used |-> estimated_used_gb(volume.Size),
                                     free |-> estimated_free_gb(volume.Size),
                                     utilization_percent |-> Float(estimated_utilization),
                                     estimated |-> TRUE])])

\* the loop over disk_details.items() (lines 371-415), in the order `order`
RECURSIVE enhanced_loop(_, _, _, _, _)
enhanced_loop(order, k, disk_details, instance_id, st) ==
    IF k > Len(order) THEN st
    ELSE LET metrics == disk_details[order[k]]
         IN IF metrics.volume_id \in st.processed_volumes
            THEN enhanced_loop(order, k + 1, disk_details, instance_id, st)
            ELSE enhanced_loop(order, k + 1, disk_details, instance_id,
                    [processed_volumes |-> st.processed_volumes \cup {metrics.volume_id},
                     gauges |-> SetGauge(st.gauges,
                                    Label(metrics.volume_id, instance_id),
                                    [size |-> GB(metrics.volume_size),
                                     used |-> metrics.used_gb,
                                     free |-> metrics.free_gb,
                                     utilization_percent |-> metrics.utilization_percent,
                                     estimated |-> FALSE])])

\* the orders in which a dictionary built from a set may be gone through
Orders(S) ==
    {o \in [1..Cardinality(S) -> S] : \A a, b \in 1..Cardinality(S) : o[a] = o[b] => a = b}

\* the fallback ends the instance with `continue` (line 368): the read-ops,
\* write-ops and queue-length gauges (lines 417-462) are set on the other
\* branch only
collects_ops(branch) == branch = "enhanced"

ops_loop(volumes, instance_id, have) ==
    {<<Label(volumes[k].VolumeId, instance_id), m>> : k \in 1..Len(volumes), m \in have}

NoLast == [instance_id |-> "none", Volumes |-> << >>, volumes |-> << >>,
           samples |-> << >>, disk_details |-> << >>, branch |-> "none"]

EbsStart(instances) ==
    [pc |-> "run", instances |-> instances, next |-> 1,
     processed_volumes |-> {}, gauges |-> << >>, ops |-> {}, last |-> NoLast]

InitEbs ==
    /\ CouchOff /\ AwsOff /\ MainOff /\ SeriesOff /\ LateOff
    /\ \E instances \in InstanceLists : ebs = EbsStart(instances)

\* the body of the loop of collect_ebs_volume_metrics for one instance
\* (lines 312-466)
EbsInstance ==
    /\ ebs.pc = "run"
    /\ ebs.next <= Len(ebs.instances)
    /\ LET instance_id == ebs.instances[ebs.next]
           st == [processed_volumes |-> ebs.processed_volumes, gauges |-> ebs.gauges]
       IN \/ \* an API call of get_enhanced_disk_metrics raised (lines 464-466)
             ebs' = [ebs EXCEPT !.next = @ + 1,
                       !.last = [NoLast EXCEPT !.instance_id = instance_id,
                                               !.branch = "error"]]
          \/ \E Volumes \in VolumeAnswers(instance_id), samples \in SampleAnswers,
                raised \in BOOLEAN :
               /\ WellFormedSamples(samples)
               /\ LET disk_details == get_enhanced_disk_metrics(samples,
                                           [Volumes |-> Volumes])
                      volumes == get_ebs_volumes_for_instance(Volumes, raised)
                      branch == IF DOMAIN disk_details = {} THEN "fallback"
                                ELSE "enhanced"
                  IN \E order \in Orders(DOMAIN disk_details),
                        have \in IF collects_ops(branch) /\ Len(volumes) > 0
                                 THEN OpsAnswers ELSE {{}} :
                       LET after == IF branch = "fallback"
                                    THEN fallback_loop(volumes, 1, instance_id, st)
                                    ELSE enhanced_loop(order, 1, disk_details,
                                                       instance_id, st)
                       IN ebs' = [ebs EXCEPT !.next = @ + 1,
                                    !.processed_volumes = after.processed_volumes,
                                    !.gauges = after.gauges,
                                    !.ops = @ \cup ops_loop(volumes, instance_id, have),
                                    !.last = [instance_id |-> instance_id,
                                              Volumes |-> Volumes,
                                              volumes |-> volumes,
                                              samples |-> samples,
                                              disk_details |-> disk_details,
                                              branch |-> branch]]
    /\ UNCHANGED <<couchVars, lateVars, aws, mainRun, series>>

\* the loop over the instances is over
EbsReturn ==
    /\ ebs.pc = "run"
    /\ ebs.next > Len(ebs.instances)
    /\ ebs' = [ebs EXCEPT !.pc = "done"]
    /\ UNCHANGED <<couchVars, lateVars, aws, mainRun, series>>

NextEbs == EbsInstance \/ EbsReturn

SpecEbs == InitEbs /\ [][NextEbs]_vars

\* ------------------------------------------------------------------------
\* couchdb_utils.py: format_for_time_series
\* ------------------------------------------------------------------------
\* rows handed to one call of format_for_time_series
MaxRows == 3

\* A string is the sequence of its characters
DigitChars == {"0", "1", "2", "3", "4", "5", "6", "7", "8", "9"}

DigitValue ==
    ("0" :> 0) @@ ("1" :> 1) @@ ("2" :> 2) @@ ("3" :> 3) @@ ("4" :> 4) @@
    ("5" :> 5) @@ ("6" :> 6) @@ ("7" :> 7) @@ ("8" :> 8) @@ ("9" :> 9)

\* the character at position p, "" past the end of the string
At(s, p) == IF p >= 1 /\ p <= Len(s) THEN s[p] ELSE ""

\* the number written at positions p .. p + n - 1
RECURSIVE Number(_, _, _)
Number(s, p, n) ==
    IF n = 0 THEN 0 ELSE Number(s, p, n - 1) * 10 + DigitValue[s[p + n - 1]]

\* datetime.strptime(date_string, "%Y-%m-%d") (line 221) matches the string
\* against  (\d\d\d\d)-(1[0-2]|0[1-9]|[1-9])-(3[01]|[12]\d|0[1-9]|[1-9]| [1-9])
\* from its start.  %d: the length of the first alternative that matches at
\* p, 0 when none does
DayLen(s, p) ==
    IF At(s, p) = "3" /\ At(s, p + 1) \in {"0", "1"} THEN 2
    ELSE IF At(s, p) \in {"1", "2"} /\ At(s, p + 1) \in DigitChars THEN 2
    ELSE IF At(s, p) = "0" /\ At(s, p + 1) \in DigitChars \ {"0"} THEN 2
    ELSE IF At(s, p) \in DigitChars \ {"0"} THEN 1
    ELSE IF At(s, p) = " " /\ At(s, p + 1) \in DigitChars \ {"0"} THEN 2
    ELSE 0

\* the rest of the pattern after the month: "-" and a day
DayFollows(s, p) == At(s, p) = "-" /\ DayLen(s, p + 1) > 0

\* %m at position p: the length of the first alternative after which the
\* rest of the pattern matches, 0 when none does
MonthLen(s, p) ==
    IF /\ \/ At(s, p) = "1" /\ At(s, p + 1) \in {"0", "1", "2"}
          \/ At(s, p) = "0" /\ At(s, p + 1) \in DigitChars \ {"0"}
       /\ DayFollows(s, p + 2)
    THEN 2
    ELSE IF At(s, p) \in DigitChars \ {"0"} /\ DayFollows(s, p + 1) THEN 1
    ELSE 0

IsLeap(year) == year % 4 = 0 /\ (year % 100 # 0 \/ year % 400 = 0)

DaysIn(year, month) ==
    IF month = 2 THEN (IF IsLeap(year) THEN 29 ELSE 28)
    ELSE IF month \in {4, 6, 9, 11} THEN 30 ELSE 31

\* the day as a number: a leading blank counts for nothing
DayNumber(s, p, n) ==
    IF At(s, p) = " " THEN Number(s, p + 1, n - 1) ELSE Number(s, p, n)

NoDate == [error |-> "ValueError", year |-> 0]

\* strptime on a string: ValueError when the pattern does not match, when
\* characters remain after the match, or when the day does not exist
strptime(s) ==
    IF ~(/\ \A p \in 1..4 : At(s, p) \in DigitChars
         /\ At(s, 5) = "-"
         /\ MonthLen(s, 6) > 0)
    THEN NoDate
    ELSE LET ml == MonthLen(s, 6)
             dl == DayLen(s, 7 + ml)
             year == Number(s, 1, 4)
             month == Number(s, 6, ml)
             day == DayNumber(s, 7 + ml, dl)
         IN IF /\ 6 + ml + dl = Len(s)
               /\ year >= 1
               /\ day <= DaysIn(year, month)
            THEN [error |-> "none", year |-> year]
            ELSE NoDate

\* the values a JSON document holds under the date key
JsonNone == [kind |-> "None", chars |-> << >>, n |-> 0]

JsonStr(chars) == [kind |-> "str", chars |-> chars, n |-> 0]

JsonInt(n) == [kind |-> "int", chars |-> << >>, n |-> n]

\* `if date_string:` (line 218)
Truthy(v) ==
    CASE v.kind = "None" -> FALSE
      [] v.kind = "str" -> Len(v.chars) > 0
      [] v.kind = "int" -> v.n # 0

\* the date strings met: zero-padded dates, a date of 2015, a date without
\* zero padding, a day that does not exist, text
DateStrings ==
    {<<"2", "0", "2", "0", "-", "0", "1", "-", "0", "1">>,
     <<"2", "0", "2", "1", "-", "0", "6", "-", "0", "1">>,
     <<"2", "0", "1", "5", "-", "1", "2", "-", "3", "1">>,
     <<"2", "0", "2", "0", "-", "1", "-", "1">>,
     <<"2", "0", "2", "1", "-", "0", "2", "-", "3", "0">>,
     <<"n", "o", "t", "-", "a", "-", "d", "a", "t", "e">>,
     << >>}

\* a row: the keys it holds and the value under the date key
Row(fields, date) == [fields |-> fields, date |-> date]

\* rows with both keys, rows without the date key, a row without the value
\* key, a null date and a date stored as a number
Rows ==
    {Row({"key", "value"}, JsonStr(s)) : s \in DateStrings}
        \cup {Row({"key", "value"}, JsonNone),
              Row({"key", "value"}, JsonInt(20200101)),
              Row({"value"}, JsonNone),
              Row({"key"}, JsonStr(<<"2", "0", "2", "0", "-", "0", "1", "-", "0", "1">>))}

Results == UNION {[1..n -> Rows] : n \in 0..MaxRows}

\* the body of the loop over list(result) for one item (lines 217-236):
\* what becomes of the item
Outcome(item, year_filter) ==
    IF "key" \notin item.fields THEN "KeyError"
    ELSE IF ~Truthy(item.date) THEN "missing"
    ELSE IF item.date.kind # "str" THEN "TypeError"
    ELSE IF strptime(item.date.chars).error # "none" THEN "invalid"
    ELSE IF year_filter /\ ~(strptime(item.date.chars).year > 2015) THEN "filtered"
    ELSE IF "value" \notin item.fields THEN "KeyError"
    ELSE "appended"

\* the years of grouped_data in the order of their first entry (lines
\* 237-243)
RECURSIVE GroupKeys(_, _, _)
GroupKeys(upd_result, k, keys) ==
    IF k > Len(upd_result) THEN keys
    ELSE IF \E j \in 1..Len(keys) : keys[j] = upd_result[k]
         THEN GroupKeys(upd_result, k + 1, keys)
         ELSE GroupKeys(upd_result, k + 1, Append(keys, upd_result[k]))

\* data: one entry per year with the number of its values (lines 242-243)
Grouped(upd_result) ==
    LET keys == GroupKeys(upd_result, 1, << >>)
    IN [j \in 1..Len(keys) |->
            [Year |-> keys[j],
             count |-> Cardinality({k \in 1..Len(upd_result) :
                                        upd_result[k] = keys[j]})]]

InitSeries ==
    /\ CouchOff /\ AwsOff /\ MainOff /\ EbsOff /\ LateOff
    /\ \E result \in Results, year_filter \in BOOLEAN :
          series = [pc |-> "loop", result |-> result, year_filter |-> year_filter,
                    next |-> 1, upd_result |-> << >>, skipped |-> 0,
                    raised |-> "none", data |-> << >>]

\* one pass of the loop of format_for_time_series (lines 216-236)
SeriesItem ==
    /\ series.pc = "loop"
    /\ series.next <= Len(series.result)
    /\ LET item == series.result[series.next]
           outcome == Outcome(item, series.year_filter)
       IN series' =
            CASE outcome \in {"KeyError", "TypeError"} ->
                    [series EXCEPT !.pc = "raised", !.raised = outcome]
              [] outcome \in {"missing", "invalid"} ->
                    [series EXCEPT !.next = @ + 1, !.skipped = @ + 1]
              [] outcome = "filtered" ->
                    [series EXCEPT !.next = @ + 1]
              [] outcome = "appended" ->
                    [series EXCEPT !.next = @ + 1,
                        !.upd_result = Append(@, strptime(item.date.chars).year)]
    /\ UNCHANGED <<couchVars, lateVars, aws, mainRun, ebs>>

\* the grouping and the return (lines 237-245)
SeriesReturn ==
    /\ series.pc = "loop"
    /\ series.next > Len(series.result)
    /\ series' = [series EXCEPT !.pc = "returned",
                                !.data = Grouped(series.upd_result)]
    /\ UNCHANGED <<couchVars, lateVars, aws, mainRun, ebs>>

NextSeries == SeriesItem \/ SeriesReturn

SpecSeries == InitSeries /\ [][NextSeries]_vars

\* ------------------------------------------------------------------------
\* collect_components_releases_projects_data.py: the report of components,
\* releases and projects
\* ------------------------------------------------------------------------
MaxComponents == 2

MaxReleases == 3

MaxProjects == 3

\* Python orders strings by the code points of their characters
Ord ==
    ("1" :> 49) @@ ("2" :> 50) @@ ("U" :> 85) @@ ("a" :> 97) @@ ("b" :> 98) @@
    ("k" :> 107) @@ ("n" :> 110) @@ ("o" :> 111) @@ ("v" :> 118) @@ ("w" :> 119)

\* a < b for two strings
RECURSIVE StrLess(_, _)
StrLess(a, b) ==
    IF Len(a) = 0 THEN Len(b) > 0
    ELSE IF Len(b) = 0 THEN FALSE
    ELSE IF Ord[Head(a)] # Ord[Head(b)] THEN Ord[Head(a)] < Ord[Head(b)]
    ELSE StrLess(Tail(a), Tail(b))

\* a name and an id a document does not hold
MissingName == <<"missing">>

MissingId == <<"missing", 0>>

Unknown == <<"U", "n", "k", "n", "o", "w", "n">>

\* doc.get('name', 'Unknown') (lines 136, 151)
NameOf(doc) == IF doc.name = MissingName THEN Unknown ELSE doc.name

ComponentId(k) == <<"c", k>>

ReleaseId(k) == <<"r", k>>

ComponentIds == {ComponentId(k) : k \in 1..MaxComponents}

ReleaseIds == {ReleaseId(k) : k \in 1..MaxReleases}

\* the names a component document may carry
ComponentNames(k) ==
    IF k = 1 THEN {<<"a">>, <<"a", "b">>} ELSE {<<"a", "b">>, MissingName}

\* the component documents of the database, in any order: _id is unique
ComponentLists ==
    {cs \in UNION {[1..n -> [_id : ComponentIds,
                             name : UNION {ComponentNames(k) : k \in 1..MaxComponents}]]
                     : n \in 0..MaxComponents} :
        /\ \A i, j \in DOMAIN cs : cs[i]._id = cs[j]._id => i = j
        /\ \A i \in DOMAIN cs : cs[i].name \in ComponentNames(cs[i]._id[2])}

ReleaseNames == {<<"v", "1">>, <<"v", "2">>}

\* the release documents: the k-th one has the _id ReleaseId(k), its
\* componentId names a component or is missing
ReleaseLists ==
    UNION {{[k \in 1..n |-> [_id |-> ReleaseId(k), componentId |-> f[k].componentId,
                             name |-> f[k].name]]
            : f \in [1..n -> [componentId : ComponentIds \cup {MissingId},
                              name : ReleaseNames]]}
           : n \in 0..MaxReleases}

\* releaseIdToUsage of a project: missing, or the release ids it uses
Usages == {{ReleaseId(1)}, {ReleaseId(2)}, {ReleaseId(1), ReleaseId(3)}}

ProjectDocs ==
    {[has_usage |-> FALSE, releaseIdToUsage |-> {}]}
        \cup {[has_usage |-> TRUE, releaseIdToUsage |-> u] : u \in Usages}

ProjectLists == UNION {[1..n -> ProjectDocs] : n \in 0..MaxProjects}

\* `'releaseIdToUsage' in project and project['releaseIdToUsage']` (line 103)
UsedBy(project) ==
    IF project.has_usage /\ project.releaseIdToUsage # {}
    THEN project.releaseIdToUsage ELSE {}

\* count_projects_per_release (lines 93-109): release_project_count, a
\* dictionary over the release ids met
count_projects_per_release(projects) ==
    [r \in UNION {UsedBy(projects[i]) : i \in DOMAIN projects} |->
        Cardinality({i \in DOMAIN projects : r \in UsedBy(projects[i])})]

\* release_project_count.get(release_id, 0) (line 146), and a lookup that
\* only tells whether the release is used
GetUsed(release_project_count, release_id) ==
    IF release_id \in DOMAIN release_project_count THEN 1 ELSE 0

GetCount(release_project_count, release_id) ==
    IF release_id \in DOMAIN release_project_count
    THEN release_project_count[release_id] ELSE 0

\* the sort keys (lines 162 and 166) and the sort without the name
ByCountOnly(count_a, name_a, count_b, name_b) == count_a > count_b

KeyLess(count_a, name_a, count_b, name_b) ==
    \/ count_a > count_b
    \/ count_a = count_b /\ StrLess(name_a, name_b)

\* list.sort is stable: an element goes in front of the first element whose
\* key is greater than its own
InsertRelease(sorted, x) ==
    LET after == {i \in DOMAIN sorted :
                     KeyLess(x.project_count, x.release_name,
                             sorted[i].project_count, sorted[i].release_name)}
        p == IF after = {} THEN Len(sorted) + 1
             ELSE CHOOSE i \in after : \A j \in after : i <= j
    IN SubSeq(sorted, 1, p - 1) \o <<x>> \o SubSeq(sorted, p, Len(sorted))

RECURSIVE SortReleases(_, _, _)
SortReleases(list, k, sorted) ==
    IF k > Len(list) THEN sorted
    ELSE SortReleases(list, k + 1, InsertRelease(sorted, list[k]))

InsertComponent(sorted, x) ==
    LET after == {i \in DOMAIN sorted :
                     KeyLess(x.total_releases, x.component_name,
                             sorted[i].total_releases, sorted[i].component_name)}
        p == IF after = {} THEN Len(sorted) + 1
             ELSE CHOOSE i \in after : \A j \in after : i <= j
    IN SubSeq(sorted, 1, p - 1) \o <<x>> \o SubSeq(sorted, p, Len(sorted))

RECURSIVE SortComponents(_, _, _)
SortComponents(list, k, sorted) ==
    IF k > Len(list) THEN sorted
    ELSE SortComponents(list, k + 1, InsertComponent(sorted, list[k]))

\* `component_id and component_id in component_lookup` (line 124), and the
\* test without the lookup
HasComponentId(release, components) == release.componentId # MissingId

HasComponent(release, components) ==
    /\ release.componentId # MissingId
    /\ \E i \in DOMAIN components : components[i]._id = release.componentId

\* release_data (lines 145-158)
ReleaseData(release, release_project_count) ==
    [release_id |-> release._id,
     release_name |-> NameOf(release),
     project_count |-> GetCount(release_project_count, release._id)]

\* component_data with its sorted releases (lines 133-163)
ComponentData(component, releases, release_project_count) ==
    LET mine == SelectSeq(releases,
                    LAMBDA r : r.componentId = component._id)
    IN [component_id |-> component._id,
        component_name |-> NameOf(component),
        total_releases |-> Len(mine),
        releases |-> SortReleases(
            [k \in DOMAIN mine |-> ReleaseData(mine[k], release_project_count)],
            1, << >>)]

\* organize_data (lines 112-168): the sorted result and the orphaned releases
organize_data(components, releases, release_project_count) ==
    [result |-> SortComponents(
                    [i \in DOMAIN components |->
                        ComponentData(components[i],
                            SelectSeq(releases, LAMBDA r : HasComponent(r, components)),
                            release_project_count)],
                    1, << >>),
     orphaned_releases |->
         SelectSeq(releases, LAMBDA r : ~HasComponent(r, components))]

NoReport == [result |-> << >>, orphaned_releases |-> << >>]

InitOrg ==
    /\ CouchOff /\ AwsOff /\ MainOff /\ EbsOff /\ SeriesOff /\ AggOff /\ GwOff /\ Ec2Off
    /\ \E projects \in ProjectLists :
          org = [pc |-> "fetched", projects |-> projects,
                 release_project_count |-> << >>,
                 components |-> << >>, releases |-> << >>, report |-> NoReport]

\* count_projects_per_release on the projects of the database
CountProjects ==
    /\ org.pc = "fetched"
    /\ org' = [org EXCEPT !.pc = "counted",
                          !.release_project_count =
                              count_projects_per_release(org.projects)]
    /\ UNCHANGED <<couchVars, aws, mainRun, ebs, series, agg, gw, ec2>>

\* organize_data on the components and releases of the database
OrganizeData ==
    /\ org.pc = "counted"
    /\ \E components \in ComponentLists, releases \in ReleaseLists :
          org' = [org EXCEPT !.pc = "organized",
                             !.components = components,
                             !.releases = releases,
                             !.report = organize_data(components, releases,
                                            org.release_project_count)]
    /\ UNCHANGED <<couchVars, aws, mainRun, ebs, series, agg, gw, ec2>>

NextOrg == CountProjects \/ OrganizeData

SpecOrg == InitOrg /\ [][NextOrg]_vars

\* ------------------------------------------------------------------------
\* The aggregation stages over the releases and projects of the database
\* (couchdb_common_metrics.py and their counterparts in couchdb_utils.py)
\* ------------------------------------------------------------------------
\* projects in the database of an aggregation stage
MaxStoreProjects == 2

EccStatuses == {"APPROVED", "OPEN"}

\* the release documents of the database in the order of their _id
StoreReleases ==
    UNION {{[k \in 1..n |-> [_id |-> ReleaseId(k), componentId |-> f[k].componentId,
                             name |-> f[k].name, eccStatus |-> f[k].eccStatus]]
            : f \in [1..n -> [componentId : ComponentIds, name : ReleaseNames,
                              eccStatus : EccStatuses]]}
           : n \in 0..MaxReleases}

\* a project references releases by the keys of releaseIdToUsage; the field
\* releaseId is what the view byReleaseId of line 353 emits
StoreProjectDocs ==
    {[releaseId |-> MissingId, releaseIdToUsage |-> {}],
     [releaseId |-> MissingId, releaseIdToUsage |-> {ReleaseId(1)}],
     [releaseId |-> ReleaseId(1), releaseIdToUsage |-> {ReleaseId(1)}],
     [releaseId |-> ReleaseId(2), releaseIdToUsage |-> {ReleaseId(2)}]}

StoreProjects == UNION {[1..n -> StoreProjectDocs] : n \in 0..MaxStoreProjects}

\* the label value of a name the row does not carry (line 386)
NotAvailable == <<"N", "/", "A">>

\* gauge.labels(...).set(value)
SetCall(gauge, labels, value) == [gauge |-> gauge, labels |-> labels, value |-> value]

\* what client.post_find(...).get_result() gives: the documents, or an
\* ApiException
FindReturns == {"docs", "ApiException"}

\* how a stage ends: it returns after the calls of set it made, or an
\* exception leaves it before any call
Returned(calls) == [calls |-> calls, raised |-> "none"]

Raised(e) == [calls |-> << >>, raised |-> e]

\* couchdb_common_metrics.query_execution_comp_not_used (lines 344-392):
\* answers are what fetch_results returned for byReleaseId and for
\* byReleaseIdAndComponentId; a None ends the stage (lines 372-374),
\* otherwise the keys of byReleaseId, the rows of byReleaseIdAndComponentId
\* in the order of their key, and one set per row of an unused release
comp_not_used(releases, projects, answers) ==
    LET proj_rel_id_list == {projects[i].releaseId : i \in DOMAIN projects}
        rel_id_list == {releases[k]._id : k \in DOMAIN releases}
        unused_release_ids == rel_id_list \ proj_rel_id_list
        unused_components ==
            SelectSeq(releases, LAMBDA row : row._id \in unused_release_ids)
    IN IF answers[1] = "None" \/ answers[2] = "None"
       THEN Returned(<< >>)
       ELSE Returned([k \in DOMAIN unused_components |->
                SetCall("unused_component_count",
                        <<unused_components[k].componentId, NotAvailable>>, 1)])

\* comp_result of couchdb_utils.query_execution_comp_not_used (lines
\* 536-540): a dictionary keeps the place of the first entry of a key and
\* the value of the last one
RECURSIVE CompResult(_, _, _)
CompResult(result_rel, k, comp_result) ==
    IF k > Len(result_rel) THEN comp_result
    ELSE LET item == result_rel[k]
             at == {j \in DOMAIN comp_result : comp_result[j].key = item.componentId}
             entry == [key |-> item.componentId, name |-> item.name]
         IN CompResult(result_rel, k + 1,
                IF at = {} THEN Append(comp_result, entry)
                ELSE [j \in DOMAIN comp_result |->
                        IF j \in at THEN entry ELSE comp_result[j]])

\* couchdb_utils.query_execution_comp_not_used (lines 476-548): answers are
\* what fetch_results returned for byreleaseid and for Release/all, and what
\* post_find gave. A None of the first view is read as no rows (lines
\* 498-499), list() of a None of the second raises TypeError (line 515), an
\* ApiException of post_find ends the stage (lines 527-534); otherwise the
\* keys of releaseIdToUsage, the release ids, the documents of the unused
\* releases and one set per component among them
comp_not_used_utils(releases, projects, answers) ==
    LET proj_rel_id_list ==
            IF answers[1] = "None" THEN {}
            ELSE UNION {projects[i].releaseIdToUsage : i \in DOMAIN projects}
        rel_id_list == {releases[k]._id : k \in DOMAIN releases}
        result_id_list == rel_id_list \ proj_rel_id_list
        result_rel == SelectSeq(releases, LAMBDA doc : doc._id \in result_id_list)
        result_list == CompResult(result_rel, 1, << >>)
    IN IF answers[2] = "None" THEN Raised("TypeError")
       ELSE IF answers[3] = "ApiException" THEN Returned(<< >>)
       ELSE Returned([k \in DOMAIN result_list |->
                SetCall("unused_component_count",
                        <<result_list[k].key, result_list[k].name>>, 1)])

\* the rows of a view that emits doc.componentId: in the order of the key,
\* rows of one key in the order of the _id
RECURSIVE RowsByComponent(_, _)
RowsByComponent(releases, k) ==
    IF k > MaxComponents THEN << >>
    ELSE SelectSeq(releases, LAMBDA doc : doc.componentId = ComponentId(k))
            \o RowsByComponent(releases, k + 1)

\* key_counts (lines 255-262): one entry per key in the order of the first
\* row of the key, with the name of that row
RECURSIVE KeyCounts(_, _, _)
KeyCounts(result, k, key_counts) ==
    IF k > Len(result) THEN key_counts
    ELSE LET row == result[k]
             at == {j \in DOMAIN key_counts : key_counts[j].key = row.componentId}
         IN KeyCounts(result, k + 1,
                IF at = {}
                THEN Append(key_counts,
                            [key |-> row.componentId, name |-> row.name, count |-> 1])
                ELSE [j \in DOMAIN key_counts |->
                        IF j \in at
                        THEN [key_counts[j] EXCEPT !.count = @ + 1]
                        ELSE key_counts[j]])

\* sorted(result_list, key=count, reverse=True) (line 265): stable, so
\* entries of equal count keep their order
InsertByCount(sorted, x) ==
    LET after == {i \in DOMAIN sorted : x.count > sorted[i].count}
        p == IF after = {} THEN Len(sorted) + 1
             ELSE CHOOSE i \in after : \A j \in after : i <= j
    IN SubSeq(sorted, 1, p - 1) \o <<x>> \o SubSeq(sorted, p, Len(sorted))

RECURSIVE SortByCount(_, _, _)
SortByCount(list, k, sorted) ==
    IF k > Len(list) THEN sorted
    ELSE SortByCount(list, k + 1, InsertByCount(sorted, list[k]))

\* the loop that sets the gauge (lines 268-271)
SetCounts(gauge, result) ==
    LET sorted_list == SortByCount(KeyCounts(result, 1, << >>), 1, << >>)
    IN [k \in DOMAIN sorted_list |->
            SetCall(gauge, <<sorted_list[k].key, sorted_list[k].name>>,
                    sorted_list[k].count)]

\* couchdb_common_metrics.query_execution_most_used_comp (lines 236-271):
\* list() of a None of fetch_results raises TypeError (lines 248-249), no
\* row ends the stage (lines 251-253)
most_used_comp(releases, answers) ==
    LET result == RowsByComponent(releases, 1)
    IN IF answers[1] = "None" THEN Raised("TypeError")
       ELSE IF result = << >> THEN Returned(<< >>)
       ELSE Returned(SetCounts("most_used_component_count", result))

\* couchdb_utils.query_execution_most_used_comp (lines 434-454), on the
\* release documents as post_find returned them
most_used_comp_utils(result_rel) ==
    SetCounts("most_used_component_count", result_rel)

\* couchdb_common_metrics.query_execution_most_used_cleared_comp (lines
\* 274-316): list() of a None of fetch_results raises TypeError (lines
\* 290-291), no row ends the stage (lines 293-295); the rows of the approved
\* releases only are counted
most_used_cleared_comp(releases, answers) ==
    LET result == RowsByComponent(releases, 1)
    IN IF answers[1] = "None" THEN Raised("TypeError")
       ELSE IF result = << >> THEN Returned(<< >>)
       ELSE Returned(SetCounts("most_cleared_component_count",
                        SelectSeq(result, LAMBDA row : row.eccStatus = "APPROVED")))

InitAgg ==
    /\ CouchOff /\ AwsOff /\ MainOff /\ EbsOff /\ SeriesOff /\ OrgOff /\ GwOff /\ Ec2Off
    /\ \E releases \in StoreReleases, projects \in StoreProjects :
          agg = [pc |-> "ready", stage |-> "none", releases |-> releases,
                 projects |-> projects, answers |-> << >>, calls |-> << >>,
                 raised |-> "none"]

\* a stage ran on the database: agg.answers are the answers its requests
\* got, agg.calls are the calls of set it made, in their order, agg.raised
\* is the exception that left it
CompNotUsed ==
    /\ agg.pc = "ready"
    /\ \E answers \in FetchReturns \X FetchReturns :
         LET out == comp_not_used(agg.releases, agg.projects, answers)
         IN agg' = [agg EXCEPT !.pc = "done", !.stage = "comp_not_used",
                               !.answers = answers, !.calls = out.calls,
                               !.raised = out.raised]
    /\ UNCHANGED <<couchVars, aws, mainRun, ebs, series, org, gw, ec2>>

\* the stage of couchdb_utils.py for the unused components
CompNotUsedUtils ==
    /\ agg.pc = "ready"
    /\ \E answers \in FetchReturns \X FetchReturns \X FindReturns :
         LET out == comp_not_used_utils(agg.releases, agg.projects, answers)
         IN agg' = [agg EXCEPT !.pc = "done", !.stage = "comp_not_used_utils",
                               !.answers = answers, !.calls = out.calls,
                               !.raised = out.raised]
    /\ UNCHANGED <<couchVars, aws, mainRun, ebs, series, org, gw, ec2>>

\* the stage for the most used components
MostUsedComp ==
    /\ agg.pc = "ready"
    /\ \E answers \in {<<a>> : a \in FetchReturns} :
         LET out == most_used_comp(agg.releases, answers)
         IN agg' = [agg EXCEPT !.pc = "done", !.stage = "most_used_comp",
                               !.answers = answers, !.calls = out.calls,
                               !.raised = out.raised]
    /\ UNCHANGED <<couchVars, aws, mainRun, ebs, series, org, gw, ec2>>

\* the stage of couchdb_utils.py for the most used components
MostUsedCompUtils ==
    /\ agg.pc = "ready"
    /\ agg' = [agg EXCEPT !.pc = "done", !.stage = "most_used_comp_utils",
                          !.calls = most_used_comp_utils(agg.releases)]
    /\ UNCHANGED <<couchVars, aws, mainRun, ebs, series, org, gw, ec2>>

\* the stage for the most cleared components
MostUsedClearedComp ==
    /\ agg.pc = "ready"
    /\ \E answers \in {<<a>> : a \in FetchReturns} :
         LET out == most_used_cleared_comp(agg.releases, answers)
         IN agg' = [agg EXCEPT !.pc = "done", !.stage = "most_used_cleared_comp",
                               !.answers = answers, !.calls = out.calls,
                               !.raised = out.raised]
    /\ UNCHANGED <<couchVars, aws, mainRun, ebs, series, org, gw, ec2>>

NextAgg ==
    \/ CompNotUsed
    \/ CompNotUsedUtils
    \/ MostUsedComp
    \/ MostUsedCompUtils
    \/ MostUsedClearedComp

SpecAgg == InitAgg /\ [][NextAgg]_vars

\* ------------------------------------------------------------------------
\* aws_cloudwatch_utils.py: collect_ec2_instance_metrics
\* ------------------------------------------------------------------------
\* entries of the list of instances handed to collect_ec2_instance_metrics
MaxInstances == 3

\* the lists of instances: an id may come more than once
Ec2InstanceLists == UNION {[1..n -> InstanceIds] : n \in 0..MaxInstances}

Ec2Metrics == {"CPUUtilization", "mem_used_percent", "NetworkIn", "NetworkOut"}

\* the metrics for which get_cloudwatch_metric returns a value
Ec2Answers == {{}, Ec2Metrics}

\* the gauge is not set
NotSet == 0 - 1

InitEc2 ==
    /\ CouchOff /\ AwsOff /\ MainOff /\ EbsOff /\ SeriesOff
    /\ OrgOff /\ AggOff /\ GwOff
    /\ \E instances \in Ec2InstanceLists :
          ec2 = [pc |-> "start", instances |-> instances, next |-> 1,
                 running_instances |-> NotSet, processed_instances |-> {},
                 calls |-> << >>]

\* running_instances_gauge.set(len(instances)) (line 221)
Ec2SetRunning ==
    /\ ec2.pc = "start"
    /\ ec2' = [ec2 EXCEPT !.pc = "loop", !.running_instances = Len(ec2.instances)]
    /\ UNCHANGED <<couchVars, aws, mainRun, ebs, series, org, agg, gw>>

\* one pass of the loop over the instances (lines 228-295): an instance
\* already processed is skipped, another one gets a sample of every metric
\* CloudWatch has a value for; calls is the sequence of the labels set
Ec2Instance ==
    /\ ec2.pc = "loop"
    /\ ec2.next <= Len(ec2.instances)
    /\ LET instance_id == ec2.instances[ec2.next]
       IN IF instance_id \in ec2.processed_instances
          THEN ec2' = [ec2 EXCEPT !.next = @ + 1]
          ELSE \E have \in Ec2Answers :
                  ec2' = [ec2 EXCEPT
                            !.next = @ + 1,
                            !.processed_instances = @ \cup {instance_id},
                            !.calls = IF have = {} THEN @
                                      ELSE Append(@, instance_id)]
    /\ UNCHANGED <<couchVars, aws, mainRun, ebs, series, org, agg, gw>>

Ec2Return ==
    /\ ec2.pc = "loop"
    /\ ec2.next > Len(ec2.instances)
    /\ ec2' = [ec2 EXCEPT !.pc = "done"]
    /\ UNCHANGED <<couchVars, aws, mainRun, ebs, series, org, agg, gw>>

NextEc2 == Ec2SetRunning \/ Ec2Instance \/ Ec2Return

SpecEc2 == InitEc2 /\ [][NextEc2]_vars

\* ------------------------------------------------------------------------
\* The runs of the exporter against the push gateway
\* (couchdb_common_metrics.py: registry, main; couchdb_utils.py: push_metrics)
\* ------------------------------------------------------------------------
\* runs of the exporter, one process each
MaxRuns == 2

\* calls of labels(...).set(...) in one run
MaxSets == 2

\* the label sets the stages may set for a gauge such as
\* most_used_component_count
LabelSets == {"L1", "L2", "L3"}

\* the registry is created when the module is loaded (line 23): a run
\* starts without any child of a labelled gauge; the other reading keeps
\* the children of the run before
KeptRegistry(registry) == registry

FreshRegistry(registry) == {}

\* push_to_gateway (couchdb_utils.py:252) sends the registry with PUT: the
\* metrics of the job and grouping key {instance: latest} are replaced
push_to_gateway(group, registry) == registry

InitGw ==
    /\ CouchOff /\ AwsOff /\ MainOff /\ EbsOff /\ SeriesOff
    /\ OrgOff /\ AggOff /\ Ec2Off
    /\ gw = [pc |-> "idle", run |-> 0, registry |-> {}, set_now |-> {},
             sets |-> 0, group |-> {}, before |-> {}, pushes |-> 0]

\* the script is started: main() begins
GwStartRun ==
    /\ gw.pc \in {"idle", "ended"}
    /\ gw.run < MaxRuns
    /\ gw' = [gw EXCEPT !.pc = "stages", !.run = @ + 1,
                        !.registry = FreshRegistry(gw.registry),
                        !.set_now = {}, !.sets = 0, !.before = gw.group]
    /\ UNCHANGED <<couchVars, aws, mainRun, ebs, series, org, agg, ec2>>

\* a stage sets the gauge for a label set (lines 402-416)
GwSet ==
    /\ gw.pc = "stages"
    /\ gw.sets < MaxSets
    /\ \E l \in LabelSets :
          gw' = [gw EXCEPT !.registry = @ \cup {l}, !.set_now = @ \cup {l},
                           !.sets = @ + 1]
    /\ UNCHANGED <<couchVars, aws, mainRun, ebs, series, org, agg, ec2>>

\* delete_from_gateway for the job and grouping key (lines 418-419): the
\* group is emptied, or the request fails and main() ends with the exception
GwDelete ==
    /\ gw.pc = "stages"
    /\ \/ gw' = [gw EXCEPT !.pc = "push", !.group = {}]
       \/ gw' = [gw EXCEPT !.pc = "ended"]
    /\ UNCHANGED <<couchVars, aws, mainRun, ebs, series, org, agg, ec2>>

\* push_metrics (line 420): the push arrives, or it fails for good and
\* main() ends with the exception
GwPush ==
    /\ gw.pc = "push"
    /\ \/ gw' = [gw EXCEPT !.pc = "pushed",
                           !.group = push_to_gateway(gw.group, gw.registry),
                           !.pushes = @ + 1]
       \/ gw' = [gw EXCEPT !.pc = "ended"]
    /\ UNCHANGED <<couchVars, aws, mainRun, ebs, series, org, agg, ec2>>

\* main() returns and the process ends
GwEndRun ==
    /\ gw.pc = "pushed"
    /\ gw' = [gw EXCEPT !.pc = "ended"]
    /\ UNCHANGED <<couchVars, aws, mainRun, ebs, series, org, agg, ec2>>

NextGw == GwStartRun \/ GwSet \/ GwDelete \/ GwPush \/ GwEndRun

SpecGw == InitGw /\ [][NextGw]_vars

\* ------------------------------------------------------------------------
\* save_new_view runs to its end
\* ------------------------------------------------------------------------
\* save_new_view is straight-line code in one thread: its next request is
\* sent once the one before it was answered or failed, time.sleep(5) ends,
\* and the decorators wait a finite interval between attempts
SaveNewViewStep(c) ==
    SaveCheck(c) \/ CreateRead(c) \/ CreatePut(c) \/ Settle(c) \/ PollView(c)

SpecLive ==
    Init /\ [][Next]_vars /\ \A c \in Callers : WF_vars(SaveNewViewStep(c))

\* ------------------------------------------------------------------------
\* Properties
\* ------------------------------------------------------------------------
\* C1: whatever the interleaving of two or more callers of
\* create_new_view_in_db on one design document, no step removes a view the
\* stored design document holds or changes its stored definition
C1_StoredViewsKept ==
    [][\A k \in DOMAIN docViews :
          k \in DOMAIN docViews' /\ docViews'[k] = docViews[k]]_vars

\* a caller lost a write to a conflict and the document holds the sibling
\* view and both requested views
C1_Witness ==
    \E c \in Callers :
        /\ lastErr[c] = "conflict409"
        /\ docRev > docInitial.rev
        /\ {"sib", "v1", "v2"} \subseteq DOMAIN docViews

\* C5: when callers race to add views to one design document, a conflict
\* never ends a caller's attempts by itself (only max_tries or max_time do),
\* every caller that returned True has its view in the document, and every
\* view the document held before the race is still there with its definition
C5_RaceKeepsAllViews ==
    /\ \A c \in Callers :
          /\ (lastErr[c] = "conflict409" /\ why[c] # "none")
                => why[c] \in {"max_tries", "max_time"}
          /\ (lastErr[c] = "conflict409" /\ why[c] = "none" /\ ret[c] = "none")
                => pc[c] \in {"create_read", "create_put"}
          /\ \A v \in succeeded[c] : ViewInStore(v)
          /\ (pc[c] \in {"returned", "idle"} /\ ret[c] = "True")
                => ViewInStore(view[c])
    /\ \A k \in DOMAIN docInitial.views :
          ViewInStore(k) /\ docViews[k] = docInitial.views[k]

\* both callers are done, the second one after a conflict and a second
\* attempt, and the document holds v1, v2 and the views it had
C5_Witness ==
    /\ \A c \in Callers : pc[c] = "idle" /\ ret[c] = "True"
    /\ \E c \in Callers : lastErr[c] = "conflict409" /\ tries[c] = 2
    /\ docInitial.rev = 1
    /\ DOMAIN docViews = DOMAIN docInitial.views \cup {"v1", "v2"}

\* C3: when get_design_document answers with a design document that holds
\* the requested view, save_new_view returns at once: it has issued no put,
\* has not slept, has not polled the view, and the store is as it was
C3_ExistingViewIsLeftAlone ==
    \A c \in Callers :
        checkSaw[c] = "exists" =>
            /\ pc[c] = "saved"
            /\ design_exists[c]
            /\ ~put_issued[c] /\ ~slept[c] /\ ~polled[c]
            /\ tries[c] = 0
            /\ docRev = docInitial.rev /\ docViews = docInitial.views

\* save_new_view has returned for a view the design document already held
C3_Witness ==
    \E c \in Callers :
        /\ pc[c] = "saved"
        /\ checkSaw[c] = "exists"
        /\ view[c] \in DOMAIN docInitial.views

\* DRY_RUN is unset, or reads "true" whatever the case of its letters
IsTrueAnyCase(env) ==
    \/ ~env.set
    \/ /\ Len(env.val) = 4
       /\ env.val[1] \in {"t", "T"} /\ env.val[2] \in {"r", "R"}
       /\ env.val[3] \in {"u", "U"} /\ env.val[4] \in {"e", "E"}

\* C4: under dry-run, a call of save_new_view for a view the store does not
\* hold never issues a put and leaves the store as it was; when it returns
\* it has slept, has polled the view and holds view_created = True
C4_DryRunWritesNothing ==
    \A c \in Callers :
        (IsTrueAnyCase(DRY_RUN[c]) /\ ~ViewInStore(view[c])
            /\ pc[c] \in {"create_read", "create_put", "sleep", "poll", "saved", "raised"})
        => /\ ~put_issued[c]
           /\ pc[c] \notin {"create_read", "create_put"}
           /\ docRev = docInitial.rev /\ docViews = docInitial.views
           /\ pc[c] = "saved" =>
                 slept[c] /\ polled[c] /\ view_created[c] /\ ~design_exists[c]

\* DRY_RUN=TRUE, the view was missing, and save_new_view has returned after
\* the sleep and the poll
C4_Witness ==
    \E c \in Callers :
        /\ DRY_RUN[c] = [set |-> TRUE, val |-> Str_TRUE]
        /\ pc[c] = "saved"
        /\ checkSaw[c] = "missing"
        /\ slept[c] /\ polled[c] /\ view_created[c]

\* C6 (as stated): fetch_results is called on a view only after the view was
\* found or answered a poll, and never after its provisioning failed
C6_QueryOnlyWhenReady ==
    \A c \in Callers :
        pc[c] = "fetch" => prev[c].answered /\ prev[c].ready

\* C7: wait_for_view_indexing polls again only after an ApiException with
\* status 404 or 408; any other ApiException ends the wait at once through
\* the classifier, and a 404 or 408 ends it only through max_tries or
\* max_time
C7_PollAgainOnlyAfterIndexing ==
    \A c \in Callers :
        /\ (pc[c] = "poll" /\ tries[c] >= 1)
              => lastErr[c] \in {"not_found404", "timeout408"}
        /\ pollOutcome[c] = "gaveup"
              => /\ pc[c] = "saved"
                 /\ why[c] = "classifier"
                       <=> lastErr[c] \notin {"not_found404", "timeout408"}
                 /\ why[c] \in {"classifier", "max_tries", "max_time"}

\* the view was polled three times: 404 or 408 twice, then a 503 that ended
\* the wait
C7_Witness ==
    \E c \in Callers :
        /\ pc[c] = "saved"
        /\ pollOutcome[c] = "gaveup"
        /\ lastErr[c] = "service_unavailable503"
        /\ tries[c] = 3

\* C8 (as stated): when every attempt of fetch_results fails with a
\* retryable error and the attempts run out, the call has made exactly
\* MAX_BACKOFF_RETRIES attempts and returns the last error to its caller
C8_ExactlyNThenLastError ==
    \A c \in Callers :
        (pc[c] = "fetched" /\ why[c] = "max_tries") =>
            tries[c] = MAX_BACKOFF_RETRIES /\ ret[c] = lastErr[c]

\* the errors the specification calls transient infrastructure errors:
\* throttling, service unavailable, timeout, index not ready
TransientInfrastructure ==
    {"too_many_requests429", "service_unavailable503", "timeout408",
     "timeout500", "gateway504", "not_found404"}

\* C9 (as stated): fetch_results retries after an error exactly when it is a
\* throttling, service-unavailable, timeout or index-not-ready error
C9_RetriesTransientInfrastructure ==
    \A c \in Callers :
        /\ (pc[c] = "fetch" /\ tries[c] >= 1)
              => lastErr[c] \in TransientInfrastructure
        /\ (pc[c] = "fetched" /\ why[c] = "classifier")
              => lastErr[c] \notin TransientInfrastructure

\* the errors the specification calls permanent
PermanentErrors == {"unauthorized401", "bad_request400"}

\* C10 (as stated): a permanent error of the existence check is not read as
\* "view missing" (no creation, no wait follows it) and a permanent error of
\* the creation is not retried
C10_PermanentErrorSurfaced ==
    \A c \in Callers :
        /\ (checkSaw[c] = "error" /\ tries[c] = 0 /\ lastErr[c] \in PermanentErrors)
              => pc[c] \notin {"create_read", "sleep"}
        /\ (pc[c] \in {"create_read", "create_put"} /\ tries[c] >= 1 /\ checkSaw[c] # "error")
              => lastErr[c] \notin PermanentErrors

\* C2: when a call of save_new_view for a view ended with the view found or
\* created, the next call for the same view whose existence check is
\* answered ends the same way and issues no put; outside dry-run it finds
\* the view and neither sleeps nor polls
C2_SecondCallWritesNothing ==
    \A c \in Callers :
        (prev[c].some /\ prev[c].view = view[c] /\ prev[c].ready
            /\ checkSaw[c] \in {"exists", "missing", "no_document"})
        => /\ ~put_issued[c]
           /\ pc[c] \notin {"create_read", "create_put"}
           /\ pc[c] = "saved" => design_exists[c] \/ view_created[c]
           /\ ~dry_run(DRY_RUN[c]) => checkSaw[c] = "exists"
           /\ checkSaw[c] # "exists" => docRev = docInitial.rev

\* the first call created v2 with a put, the second call for v2 has returned
C2_Witness ==
    \E c \in Callers :
        /\ callNo[c] = 1
        /\ prev[c].some /\ prev[c].view = "v2" /\ view[c] = "v2" /\ prev[c].ready
        /\ "v2" \notin DOMAIN docInitial.views
        /\ docRev > docInitial.rev
        /\ pc[c] = "saved"
        /\ checkSaw[c] = "exists"

\* C11 (as stated): after a Throttling, RequestLimitExceeded or
\* ServiceUnavailable error inside get_running_instances or
\* get_cloudwatch_metric a further attempt of the call is made: no call ends
\* on such an error at its first attempt
C11_ThrottleIsRetried ==
    (aws.pc = "returned" /\ aws.err \in ThrottleCodes) => aws.tries >= 2

\* C12 (as stated): when the attempts of the push fail with
\* ChunkedEncodingError, push_metrics makes further attempts, up to
\* MAX_PUSH_GATEWAY_RETRIES in total, and after the last one it returns to its
\* caller without raising
C12_PushGivesUpSilently ==
    /\ mainRun.pushTries <= MAX_PUSH_GATEWAY_RETRIES
    /\ mainRun.pushErr = PushRetried =>
          /\ mainRun.pc \in {"push", "aws_push", "ended"}
          /\ mainRun.pushTries = MAX_PUSH_GATEWAY_RETRIES => mainRun.pc = "ended"

\* C13 (as stated): when fetch_results gives up (retries exhausted or fatal
\* error) it returns an empty sequence of rows
C13_GiveUpReturnsEmptyRows ==
    \A c \in Callers :
        (pc[c] = "fetched" /\ why[c] # "none") => ret[c] = "[]"

\* C14 (as stated): a fetch that returns nothing after its retries only skips
\* its stage: main() is never ended by it, the later stages and the push
\* still run
C14_FailedFetchSkipsOnlyItsStage ==
    /\ mainRun.pc = "aborted" => mainRun.cause # "TypeError"
    /\ (mainRun.stage >= 1 /\ mainRun.pc \in {"delete", "push", "ended"})
          => Len(mainRun.results) = Len(MainStages)

\* the sizes (in quarters of a GB) find_closest_volume is asked about: the
\* totals of the samples, and sizes around those of the volumes
AskedSizes ==
    {get_size_gb(s.total) : s \in UNION {SamplesOf(d) : d \in Devices}}
        \cup {GB(99), GB(100), GB(100) + 1, GB(105), GB(120), GB(120) + 1}

\* the positions of the volumes that are not smaller than the sample
Fitting(volume_size, Volumes) ==
    {k \in 1..Len(Volumes) : GB(Volumes[k].Size) >= volume_size}

\* the earliest position among the fitting volumes of least size
Expected(volume_size, Volumes) ==
    CHOOSE k \in Fitting(volume_size, Volumes) :
        \A j \in Fitting(volume_size, Volumes) :
            \/ Volumes[k].Size < Volumes[j].Size
            \/ Volumes[k].Size = Volumes[j].Size /\ k <= j

\* C15: for every sample size and every list of volumes find_closest_volume
\* returns no volume when every volume is smaller than the sample, and
\* otherwise the earliest volume of least Size among those not smaller than
\* the sample; the volumes matched to the devices are chosen that way
C15_ClosestNotSmaller ==
    ebs.last.branch \in {"fallback", "enhanced"} =>
        LET Volumes == ebs.last.Volumes
        IN /\ \A s \in AskedSizes :
                LET vol == find_closest_volume(s, [Volumes |-> Volumes])
                IN IF Fitting(s, Volumes) = {}
                   THEN vol = NoVolume
                   ELSE vol = Volumes[Expected(s, Volumes)]
           /\ \A d \in DOMAIN ebs.last.disk_details :
                LET s == get_size_gb(ebs.last.samples[d].total)
                IN /\ Fitting(s, Volumes) # {}
                   /\ ebs.last.disk_details[d].volume_id
                        = Volumes[Expected(s, Volumes)].VolumeId
                   /\ GB(ebs.last.disk_details[d].volume_size) >= s

\* volumes of 100 and 120 GB and a sample of 105 GB: the device is matched
\* to the 120 GB volume
C15_Witness ==
    /\ ebs.last.branch = "enhanced"
    /\ Len(ebs.last.Volumes) = 2
    /\ ebs.last.Volumes[1].Size = 100 /\ ebs.last.Volumes[2].Size = 120
    /\ "d1" \in DOMAIN ebs.last.disk_details
    /\ get_size_gb(ebs.last.samples["d1"].total) = GB(105)
    /\ ebs.last.disk_details["d1"].volume_id = ebs.last.Volumes[2].VolumeId

\* C16 (as stated): in the mapping get_enhanced_disk_metrics returns no two
\* devices map to the same volume
C16_NoTwoDevicesOneVolume ==
    \A d1, d2 \in DOMAIN ebs.last.disk_details :
        d1 # d2 => ebs.last.disk_details[d1].volume_id
                     # ebs.last.disk_details[d2].volume_id

\* a device of the instance just gone through has a sample and no volume
UnmatchedSample ==
    \E d \in DOMAIN ebs.last.samples :
        ebs.last.samples[d].total > 0 /\ d \notin DOMAIN ebs.last.disk_details

\* C17 (as stated): when a sample of an instance has no matching volume,
\* the sample is left out of disk_details and every in-use volume of the
\* instance (as get_ebs_volumes_for_instance lists them) gets its size,
\* used, free and utilization gauges, from a matched sample or from the
\* fallback
C17_UnmatchedFallsBack ==
    (ebs.last.branch \in {"fallback", "enhanced"} /\ UnmatchedSample) =>
        \A k \in 1..Len(ebs.last.volumes) :
            \E l \in DOMAIN ebs.gauges :
                l = Label(ebs.last.volumes[k].VolumeId, ebs.last.instance_id)

\* C18: every volume reported by the fallback has used = size/2,
\* free = size/2, used + free = size and a utilization of 50 percent
C18_EstimateIsHalf ==
    \A l \in DOMAIN ebs.gauges :
        ebs.gauges[l].estimated =>
            /\ 2 * ebs.gauges[l].used = ebs.gauges[l].size
            /\ 2 * ebs.gauges[l].free = ebs.gauges[l].size
            /\ ebs.gauges[l].used + ebs.gauges[l].free = ebs.gauges[l].size
            /\ ebs.gauges[l].utilization_percent = Float(50)

\* the fallback reported a 120 GB volume: 60 GB used, 60 GB free
C18_Witness ==
    \E l \in DOMAIN ebs.gauges :
        /\ ebs.gauges[l].estimated
        /\ ebs.gauges[l].size = GB(120)
        /\ ebs.gauges[l].used = GB(60)

\* C19 (as stated): a (volume, instance) label set whose gauges were set by
\* the fallback has no queue-length, read-ops or write-ops sample in the run
C19_EstimateHasNoOps ==
    \A l \in DOMAIN ebs.gauges :
        ebs.gauges[l].estimated =>
            \A m \in OpsMetrics : <<l, m>> \notin ebs.ops

\* a date field in the format YYYY-MM-DD that names a day of the calendar
IsDateYMD(item) ==
    /\ "key" \in item.fields
    /\ item.date.kind = "str"
    /\ Len(item.date.chars) = 10
    /\ \A p \in {1, 2, 3, 4, 6, 7, 9, 10} : item.date.chars[p] \in DigitChars
    /\ item.date.chars[5] = "-" /\ item.date.chars[8] = "-"
    /\ Number(item.date.chars, 1, 4) >= 1
    /\ Number(item.date.chars, 6, 2) \in 1..12
    /\ Number(item.date.chars, 9, 2) \in
          1..DaysIn(Number(item.date.chars, 1, 4), Number(item.date.chars, 6, 2))

\* the rows of the input whose date lies in the year y
RowsOfYear(y) ==
    {k \in 1..Len(series.result) :
        IsDateYMD(series.result[k]) /\ Number(series.result[k].date.chars, 1, 4) = y}

\* C20 (as stated): format_for_time_series never raises; once it has
\* returned, every row whose date field is missing, None, empty or not in
\* the format YYYY-MM-DD was dropped with a diagnostic, and every other row
\* is counted once in the bucket of its year
C20_NeverRaisesCountsEachRow ==
    /\ series.pc # "raised"
    /\ series.pc = "returned" =>
          /\ series.skipped
                = Cardinality({k \in 1..Len(series.result) :
                                  ~IsDateYMD(series.result[k])})
          /\ \A j \in 1..Len(series.data) :
                series.data[j].count = Cardinality(RowsOfYear(series.data[j].Year))
          /\ \A k \in 1..Len(series.result) :
                IsDateYMD(series.result[k]) =>
                    \E j \in 1..Len(series.data) :
                        series.data[j].Year = Number(series.result[k].date.chars, 1, 4)

\* the projects whose releaseIdToUsage holds the release id
ProjectsUsing(release_id) ==
    {i \in DOMAIN org.projects :
        org.projects[i].has_usage /\ release_id \in org.projects[i].releaseIdToUsage}

\* the releases whose componentId is the component
ReleasesOf(component_id) ==
    {k \in DOMAIN org.releases : org.releases[k].componentId = component_id}

KnownComponents == {org.components[i]._id : i \in DOMAIN org.components}

\* C24: organize_data reports every component once, with total_releases
\* the number of releases whose componentId is the component and exactly
\* those releases listed, each with project_count the number of projects
\* whose releaseIdToUsage contains its id; the orphaned list holds exactly
\* the releases whose componentId is missing or no known component
C24_CountsAndOrphans ==
    org.pc = "organized" =>
        LET result == org.report.result
            orphaned == org.report.orphaned_releases
        IN /\ Len(result) = Len(org.components)
           /\ \A c \in KnownComponents :
                \E i \in DOMAIN result :
                    /\ result[i].component_id = c
                    /\ result[i].total_releases = Cardinality(ReleasesOf(c))
                    /\ {result[i].releases[k].release_id : k \in DOMAIN result[i].releases}
                         = {org.releases[k]._id : k \in ReleasesOf(c)}
                    /\ \A k \in DOMAIN result[i].releases :
                          result[i].releases[k].project_count
                            = Cardinality(ProjectsUsing(result[i].releases[k].release_id))
           /\ {orphaned[k]._id : k \in DOMAIN orphaned}
                = {org.releases[k]._id : k \in
                      {j \in DOMAIN org.releases :
                          org.releases[j].componentId \notin KnownComponents}}

\* the scenario of two components, R1 and R2 of the first one, R3 without a
\* component, and three projects using R1, R1 and R2
C24_Witness ==
    /\ org.pc = "organized"
    /\ Len(org.components) = 2 /\ Len(org.releases) = 3 /\ Len(org.projects) = 3
    /\ org.releases[1].componentId = ComponentId(1)
    /\ org.releases[2].componentId = ComponentId(1)
    /\ org.releases[3].componentId = MissingId
    /\ ProjectsUsing(ReleaseId(1)) = {1, 2} /\ ProjectsUsing(ReleaseId(2)) = {3}
    /\ ProjectsUsing(ReleaseId(3)) = {}
    /\ org.report.result[1].component_id = ComponentId(1)
    /\ org.report.result[1].total_releases = 2
    /\ org.report.result[1].releases[1].release_id = ReleaseId(1)
    /\ org.report.result[1].releases[1].project_count = 2
    /\ org.report.result[1].releases[2].project_count = 1
    /\ org.report.result[2].total_releases = 0
    /\ Len(org.report.orphaned_releases) = 1
    /\ org.report.orphaned_releases[1]._id = ReleaseId(3)

\* a sequence in another order
Permuted(seq, o) == [i \in DOMAIN seq |-> seq[o[i]]]

\* a <= b for two strings
StrLessEq(a, b) == a = b \/ StrLess(a, b)

DistinctNames(docs) ==
    \A i, j \in DOMAIN docs : NameOf(docs[i]) = NameOf(docs[j]) => i = j

\* C25: the result is in descending order of total_releases, components
\* with as many releases in ascending order of name; the releases of a
\* component are in descending order of project_count, releases with as many
\* projects in ascending order of name; when the names of the components are
\* distinct and the names of the releases are distinct, every other order
\* of the input gives the same result
C25_SortedByCountThenName ==
    org.pc = "organized" =>
        LET result == org.report.result
        IN /\ \A i, j \in DOMAIN result :
                i < j =>
                    \/ result[i].total_releases > result[j].total_releases
                    \/ /\ result[i].total_releases = result[j].total_releases
                       /\ StrLessEq(result[i].component_name, result[j].component_name)
           /\ \A i \in DOMAIN result :
                \A k, l \in DOMAIN result[i].releases :
                    k < l =>
                        LET a == result[i].releases[k]
                            b == result[i].releases[l]
                        IN \/ a.project_count > b.project_count
                           \/ /\ a.project_count = b.project_count
                              /\ StrLessEq(a.release_name, b.release_name)
           /\ (DistinctNames(org.components) /\ DistinctNames(org.releases)) =>
                \A oc \in Orders(DOMAIN org.components), o \in Orders(DOMAIN org.releases) :
                    organize_data(Permuted(org.components, oc),
                                  Permuted(org.releases, o),
                                  org.release_project_count).result = result

\* names all distinct; the component with fewer releases is given first and
\* comes last, and two releases of one component with one project each are
\* given with the later name first
C25_Witness ==
    /\ org.pc = "organized"
    /\ DistinctNames(org.components) /\ Len(org.releases) = 2
    /\ DistinctNames(org.releases)
    /\ Len(org.components) = 2
    /\ Cardinality(ReleasesOf(org.components[1]._id)) = 0
    /\ org.report.result[2].component_id = org.components[1]._id
    /\ org.releases[1].componentId = org.components[2]._id
    /\ org.releases[2].componentId = org.components[2]._id
    /\ Cardinality(ProjectsUsing(org.releases[1]._id)) = 1
    /\ Cardinality(ProjectsUsing(org.releases[2]._id)) = 1
    /\ StrLess(NameOf(org.releases[2]), NameOf(org.releases[1]))
    /\ org.report.result[1].releases[1].release_id = org.releases[2]._id

\* how often a release id occurs in the report
Occurrences(release_id) ==
    LET result == org.report.result
        orphaned == org.report.orphaned_releases
    IN Cardinality({<<i, k>> \in (DOMAIN result) \X (1..MaxReleases + 1) :
                        /\ k \in DOMAIN result[i].releases
                        /\ result[i].releases[k].release_id = release_id})
         + Cardinality({k \in DOMAIN orphaned : orphaned[k]._id = release_id})

RECURSIVE SumTotalReleases(_, _)
SumTotalReleases(result, i) ==
    IF i > Len(result) THEN 0
    ELSE result[i].total_releases + SumTotalReleases(result, i + 1)

\* C29: every input release occurs exactly once in the report, in the list
\* of one component or in the orphaned list, and the total_releases of the
\* components and the number of orphaned releases add up to the number of
\* input releases
C29_ReleasesPartitioned ==
    org.pc = "organized" =>
        /\ \A k \in DOMAIN org.releases : Occurrences(org.releases[k]._id) = 1
        /\ SumTotalReleases(org.report.result, 1) + Len(org.report.orphaned_releases)
             = Len(org.releases)

\* releases of a listed component, of a component not in the list and
\* without a component
C29_Witness ==
    /\ org.pc = "organized"
    /\ Len(org.components) = 1
    /\ \E k \in DOMAIN org.releases : org.releases[k].componentId \in KnownComponents
    /\ \E k \in DOMAIN org.releases : org.releases[k].componentId = MissingId
    /\ \E k \in DOMAIN org.releases :
          org.releases[k].componentId \in ComponentIds \ KnownComponents

\* a project references the release
Referenced(release_id) ==
    \E i \in DOMAIN agg.projects :
        \/ release_id \in agg.projects[i].releaseIdToUsage
        \/ release_id = agg.projects[i].releaseId

\* every request of the stage was answered
AllAnswered == \A i \in DOMAIN agg.answers : agg.answers[i] \in {"rows", "docs"}

\* C21 (as stated): every component a run of query_execution_comp_not_used
\* reports in unused_component_count is referenced nowhere: no release of
\* the component is referenced by a project (in a run whose requests were
\* all answered)
C21_ReportedComponentIsUnused ==
    (/\ agg.pc = "done"
     /\ agg.stage \in {"comp_not_used", "comp_not_used_utils"}
     /\ AllAnswered) =>
        \A c \in DOMAIN agg.calls :
            \A k \in DOMAIN agg.releases :
                agg.releases[k].componentId = agg.calls[c].labels[1]
                    => ~Referenced(agg.releases[k]._id)

\* C23 (as stated): no stage calls set twice for the same labels of the
\* same gauge
C23_LabelsSetOnce ==
    agg.pc = "done" =>
        \A i, j \in DOMAIN agg.calls :
            (/\ agg.calls[i].gauge = agg.calls[j].gauge
             /\ agg.calls[i].labels = agg.calls[j].labels) => i = j

\* C26 (as stated): the most-used rankings are in descending order of
\* count, components of equal count in ascending order of name, so that the
\* first of two components of equal count is the one of the smaller name
C26_RankingTiesByName ==
    (/\ agg.pc = "done"
     /\ agg.stage \in {"most_used_comp", "most_used_comp_utils",
                        "most_used_cleared_comp"}) =>
        \A i, j \in DOMAIN agg.calls :
            i < j =>
                \/ agg.calls[i].value > agg.calls[j].value
                \/ /\ agg.calls[i].value = agg.calls[j].value
                   /\ StrLessEq(agg.calls[i].labels[2], agg.calls[j].labels[2])

\* C22 (as stated, for the instances): for every list of instances the
\* count set in the running-instances gauge is the number of distinct
\* instance ids, and no instance gets its metrics set twice
C22_RunningCountsDistinctIds ==
    ec2.pc = "done" =>
        /\ ec2.running_instances
             = Cardinality({ec2.instances[k] : k \in DOMAIN ec2.instances})
        /\ \A i, j \in DOMAIN ec2.calls : ec2.calls[i] = ec2.calls[j] => i = j

\* C27: when a run has pushed, the gateway shows for the job and grouping
\* key exactly the label sets set in that run: a label set of an earlier
\* push that the run did not set again is gone
C27_SecondPushReplaces ==
    gw.pc = "pushed" =>
        /\ gw.group = gw.set_now
        /\ \A l \in gw.before : l \notin gw.set_now => l \notin gw.group

\* a first run pushed L1, the second run set L2 only and pushed: the
\* gateway shows L2 and not L1
C27_Witness ==
    /\ gw.pc = "pushed" /\ gw.run = 2 /\ gw.pushes = 2
    /\ gw.before = {"L1"}
    /\ gw.set_now = {"L2"}
    /\ gw.group = {"L2"}


\* C28: create_new_view_in_db never changes the definition of a view that is
\* already in the design document: when a caller's put is written while the
\* view name it asked for is already stored, the stored views (that name and
\* every other one) are the same after the put as before, whatever map and
\* reduce functions the caller passed
C28_PresentViewKeepsDefinition ==
    [][\A c \in Callers :
          (/\ pc[c] = "create_put"
           /\ pc'[c] # "create_put"
           /\ ViewInStore(view[c])
           /\ docRev' # docRev)
             => docViews' = docViews]_vars

\* a caller that asked for v1 under another definition than the stored one
\* has put its document with success, and v1 is stored as it was
C28_Witness ==
    \E c \in Callers :
        /\ pc[c] \in {"returned", "idle"}
        /\ ret[c] = "True"
        /\ view[c] \in succeeded[c]
        /\ ViewInStore(view[c])
        /\ docViews[view[c]] # to_dict(NewView(map_function[c]))
        /\ docViews[view[c]] = [map |-> "fA"]
        /\ docRev > docInitial.rev


\* C30: every call of save_new_view terminates: the creation of the view and
\* the poll of its index have each made at most MAX_BACKOFF_RETRIES attempts
\* at any moment, and a call that began ends (it returns, or an error that is
\* not an ApiException leaves it), also in a dry run whose polled view never
\* exists
C30_SaveNewViewTerminates ==
    /\ [](\A c \in Callers :
            pc[c] \in {"create_read", "create_put", "sleep", "poll", "saved"}
                => tries[c] <= MAX_BACKOFF_RETRIES)
    /\ \A c \in Callers :
          (pc[c] = "check") ~> (pc[c] \in {"saved", "raised"})

\* a dry run returned after MAX_BACKOFF_RETRIES polls of a view that is not
\* in the store, every one answered 404
C30_Witness ==
    \E c \in Callers :
        /\ pc[c] = "saved"
        /\ dry_run(DRY_RUN[c])
        /\ ~put_issued[c]
        /\ ~ViewInStore(view[c])
        /\ polled[c]
        /\ pollOutcome[c] = "gaveup"
        /\ lastErr[c] = "not_found404"
        /\ why[c] = "max_tries"
        /\ tries[c] = MAX_BACKOFF_RETRIES

====
